---- MODULE Spec2Model ----
(***************************************************************************)
(* Model of the Setu transaction-routing layer:                            *)
(*   - PendingQueue            (src/setu-router/src/pending_queue.rs)      *)
(*   - SolverRegistry          (src/crates/setu-router/src/solver.rs)      *)
(*   - ConsistentHashStrategy  (src/crates/setu-router-core/src/strategy/  *)
(*                              consistent_hash.rs)                        *)
(*   - LoadBalancedStrategy    (src/crates/setu-router-core/src/strategy/  *)
(*                              load_balanced.rs)                          *)
(*   - ObjectShardStrategy     (src/crates/setu-router-core/src/strategy/  *)
(*                              object_shard.rs)                           *)
(*   - UnifiedRouter           (src/crates/setu-router-core/src/           *)
(*                              unified_router.rs)                         *)
(*   - Validator               (src/setu-validator/src/lib.rs)             *)
(* Each component has its own specification (SpecQueue, SpecRegistry,      *)
(* SpecSelect); a component's actions leave the other components' state    *)
(* unchanged.                                                              *)
(***************************************************************************)
EXTENDS Integers, Sequences, FiniteSets, TLC

VARIABLES
    \* ---- PendingQueue ----
    max_size,   \* PendingQueue.max_size
    queue,      \* PendingQueue.queue : VecDeque<PendingTransfer>
    index,      \* PendingQueue.index : HashMap<String, usize> (0-based positions)
    qlast,      \* the last queue call: operation, argument, result, value returned
    qsnap,      \* history: the queue as it was before the last successful enqueue
    fifo,       \* history: ids still queued, in the order their enqueue succeeded
    \* ---- SolverRegistry ----
    solvers,            \* SolverRegistry.solvers : HashMap<SolverId, SolverInfo>
    heartbeat_timeout,  \* SolverRegistry.heartbeat_timeout
    now,                \* the monotonic clock read by Instant::now()
    rlast,              \* the last registry call: operation, argument, call time, value returned
    held,               \* the SolverInfo values a caller keeps from its last get* call
    \* ---- solver selection strategies ----
    strategy,        \* which SolverStrategy the instance is: "ConsistentHash" or "LoadBalanced"
    virtual_nodes,   \* ConsistentHashStrategy.virtual_nodes
    ring_cache,      \* ConsistentHashStrategy.ring_cache : <<>> (None) or <<[hash, ring]>>
    ring_built_for,  \* history: the ids of the solver list the cached ring was built from
    ring_built_from, \* history: that solver list itself, with the fields it had
    load_threshold,  \* LoadBalancedStrategy.load_threshold
    lb_available,    \* the solver list the load-balanced strategy is applied to
    slast,           \* the last select call: arguments, result, solver returned
    \* ---- QuickChecker ----
    clast,           \* the last QuickChecker call: operation, transfer, result
    \* ---- ObjectShardStrategy ----
    shard_count,     \* ObjectShardStrategy.shard_count
    objects,         \* the object ids a caller passes to the strategy
    olast,           \* the last ObjectShardStrategy call: operation, objects, result
    \* ---- UnifiedRouter ----
    router,          \* UnifiedRouter: strategy, subnet_router, object_strategy
    ctx,             \* the RoutingContext a caller passes to route
    ulast,           \* the last route call: context, result
    \* ---- threads sharing one SolverRegistry or one ConsistentHashStrategy ----
    threads,         \* each thread's position in the call it is making, and its locals
    lock,            \* the RwLock around the shared value: the writer and the readers holding
                     \* it, and the threads parked on it in arrival order
    atomic,          \* history: what an atomic get_available would have returned at each
                     \* point since the call in flight was made
    \* ---- Validator ----
    verified_events, \* Validator.verified_events : HashMap<String, Event>
    vlast            \* the last iteration of Validator::run: the event received, the result
                     \* of verify_event

qvars == <<max_size, queue, index, qlast, qsnap, fifo>>

rvars == <<solvers, heartbeat_timeout, now, rlast>>

svars == <<strategy, virtual_nodes, ring_cache, ring_built_for, ring_built_from, load_threshold,
           lb_available, slast>>

hvars == <<held>>

cvars == <<clast>>

ovars == <<shard_count, objects, olast>>

uvars == <<router, ctx, ulast>>

tvars == <<threads, lock, atomic>>

vvars == <<verified_events, vlast>>

vars == <<max_size, queue, index, qlast, qsnap, fifo,
          solvers, heartbeat_timeout, now, rlast, held,
          strategy, virtual_nodes, ring_cache, ring_built_for, ring_built_from, load_threshold,
          lb_available, slast, clast, shard_count, objects, olast, router, ctx, ulast,
          threads, lock, atomic, verified_events, vlast>>

\* what the actions of one component leave unchanged
notQueue == <<rvars, hvars, svars, cvars, ovars, uvars, tvars, vvars>>

notRegistry == <<qvars, hvars, svars, cvars, ovars, uvars, tvars, vvars>>

\* what a registry call whose result the caller keeps leaves unchanged
notRegistryNorCaller == <<qvars, svars, cvars, ovars, uvars, tvars, vvars>>

notSelect == <<qvars, rvars, hvars, cvars, ovars, uvars, tvars, vvars>>

notCheck == <<qvars, rvars, hvars, svars, ovars, uvars, tvars, vvars>>

notShard == <<qvars, rvars, hvars, svars, cvars, uvars, tvars, vvars>>

notRouter == <<qvars, rvars, hvars, svars, cvars, ovars, tvars, vvars>>

-----------------------------------------------------------------------------
(* Bounds of the model *)

\* largest max_size a queue is created with
MaxQueue == 3

\* the monotonic clock runs from 0 to MaxNow
MaxNow == 2

\* a registry is created with a heartbeat timeout of 1..MaxTimeout clock units
MaxTimeout == 1

\* longest solver list passed to select
MaxSolvers == 3

-----------------------------------------------------------------------------
(* Generic helpers *)

Range(s) == {s[i] : i \in 1..Len(s)}

Max(a, b) == IF a >= b THEN a ELSE b

-----------------------------------------------------------------------------
(* PendingQueue *)

TransferIds == {"t1", "t2", "t3"}

\* readings of the wall clock (SystemTime::now, milliseconds); the wall clock
\* is not monotonic, so a reading is an input of each call
ClockReadings == {0, 5}

\* A power score is written as its two 32-bit words (value = hi * 2^32 + lo),
\* so that the cast `power as u32`, which keeps the low word, can be stated.
Powers == {[hi |-> 0, lo |-> 10], [hi |-> 1, lo |-> 3]}

\* `x as u32` : the low 32 bits
AsU32(x) == x.lo

\* core_types::Transfer as the queue's tests build it (create_test_transfer),
\* with the id and the power score varied.
MkTransfer(id, power) ==
    [id |-> id, from |-> "alice", to |-> "bob", amount |-> 100,
     resources |-> <<"alice">>, vlc |-> 1, power |-> power]

Transfers == {MkTransfer(id, p) : id \in TransferIds, p \in Powers}

\* PendingTransfer::new : wraps the transfer with the clock reading and the
\* priority computed from the power score.
PendingTransferNew(transfer, ts) ==
    [transfer |-> transfer, enqueued_at |-> ts, priority |-> AsU32(transfer.power)]

\* PendingQueue::pending_ids
PendingIds(q) == [i \in 1..Len(q) |-> q[i].transfer.id]

\* a plausible slip: `>` in place of `>=`
IsFullOffByOne(q, m) == Len(q) > m

\* PendingQueue::is_full, and the first test of enqueue
IsFull(q, m) == Len(q) >= m

\* a plausible slip: the duplicate test left out
ContainsKeyNever(idx, id) == FALSE

\* HashMap::contains_key on the index
ContainsKey(idx, id) == id \in DOMAIN idx

\* HashMap::insert on the index
IndexInsert(idx, id, pos) ==
    [k \in (DOMAIN idx) \cup {id} |-> IF k = id THEN pos ELSE idx[k]]

\* HashMap::remove on the index
IndexRemove(idx, id) == [k \in (DOMAIN idx) \ {id} |-> idx[k]]

\* a plausible slip: pop_front in place of remove(position)
RemoveAtFront(q, pos) == Tail(q)

\* a plausible slip: swap_remove_back(position) in place of remove(position)
SwapRemoveBack(q, pos) ==
    IF pos + 1 = Len(q) THEN SubSeq(q, 1, Len(q) - 1)
    ELSE [i \in 1..(Len(q) - 1) |-> IF i = pos + 1 THEN q[Len(q)] ELSE q[i]]

\* VecDeque::remove(position) for a position inside the queue (0-based):
\* the later entries move up by one, their order kept.
RemoveAt(q, pos) == SubSeq(q, 1, pos) \o SubSeq(q, pos + 2, Len(q))

\* a plausible slip: positions counted from one
RebuildIndexOneBased(q) ==
    [id \in Range(PendingIds(q)) |->
        CHOOSE i \in 1..Len(q) :
            /\ q[i].transfer.id = id
            /\ \A j \in 1..Len(q) : q[j].transfer.id = id => j <= i]

\* PendingQueue::rebuild_index : clear, then insert every id with its position
\* in queue order (a later insert of the same id overwrites the earlier one).
RebuildIndex(q) ==
    [id \in Range(PendingIds(q)) |->
        (CHOOSE i \in 1..Len(q) :
            /\ q[i].transfer.id = id
            /\ \A j \in 1..Len(q) : q[j].transfer.id = id => j <= i) - 1]

EmptyIndex == [k \in {} |-> 0]

NoSnap == [valid |-> FALSE, queue |-> <<>>, index |-> EmptyIndex, transfer |-> <<>>]

\* the id sequence s without its first occurrence of id
WithoutId(s, id) ==
    IF \E i \in 1..Len(s) : s[i] = id
    THEN LET p == CHOOSE i \in 1..Len(s) : s[i] = id /\ \A j \in 1..(i - 1) : s[j] # id
         IN  SubSeq(s, 1, p - 1) \o SubSeq(s, p + 1, Len(s))
    ELSE s

QLast(op, arg, res, ret, rt) == [op |-> op, arg |-> arg, res |-> res, ret |-> ret, rt |-> rt]

\* PendingQueue::new(max_size)
QueueInit ==
    /\ max_size \in 0..MaxQueue
    /\ queue = <<>>
    /\ index = EmptyIndex
    /\ qlast = QLast("new", "", "Ok", <<>>, FALSE)
    /\ qsnap = NoSnap
    /\ fifo = <<>>

\* PendingQueue::enqueue(transfer)
Enqueue ==
    \E transfer \in Transfers, ts \in ClockReadings :
        /\ UNCHANGED notQueue
        /\ IF IsFull(queue, max_size)
           THEN /\ qlast' = QLast("enqueue", transfer, "QueueFull", <<>>, FALSE)
                /\ qsnap' = NoSnap
                /\ UNCHANGED <<max_size, queue, index, fifo>>
           ELSE IF ContainsKey(index, transfer.id)
           THEN /\ qlast' = QLast("enqueue", transfer, "DuplicateTransfer", <<>>, FALSE)
                /\ qsnap' = NoSnap
                /\ UNCHANGED <<max_size, queue, index, fifo>>
           ELSE /\ queue' = Append(queue, PendingTransferNew(transfer, ts))
                /\ index' = IndexInsert(index, transfer.id, Len(queue))
                /\ qlast' = QLast("enqueue", transfer, "Ok", <<>>, FALSE)
                /\ qsnap' = [valid |-> TRUE, queue |-> queue, index |-> index,
                             transfer |-> <<transfer>>]
                /\ fifo' = Append(fifo, transfer.id)
                /\ UNCHANGED max_size

\* PendingQueue::dequeue(transfer_id)
Dequeue ==
    \E transfer_id \in TransferIds :
        LET rt == qlast.op = "enqueue" /\ qlast.res = "Ok" /\ qlast.arg.id = transfer_id
        IN
        /\ UNCHANGED notQueue
        /\ IF ~ContainsKey(index, transfer_id)
           THEN \* index.remove(..) is None
                /\ qlast' = QLast("dequeue", transfer_id, "TransferNotFound", <<>>, rt)
                /\ qsnap' = IF rt THEN qsnap ELSE NoSnap
                /\ UNCHANGED <<max_size, queue, index, fifo>>
           ELSE LET position == index[transfer_id] IN
                IF position >= Len(queue)
                THEN \* queue.remove(position) is None: the index entry is already gone
                     /\ index' = IndexRemove(index, transfer_id)
                     /\ qlast' = QLast("dequeue", transfer_id, "TransferNotFound", <<>>, rt)
                     /\ qsnap' = IF rt THEN qsnap ELSE NoSnap
                     /\ UNCHANGED <<max_size, queue, fifo>>
                ELSE LET pending == queue[position + 1] IN
                     /\ queue' = RemoveAt(queue, position)
                     /\ index' = RebuildIndex(queue')
                     /\ qlast' = QLast("dequeue", transfer_id, "Ok", <<pending.transfer>>, rt)
                     /\ qsnap' = IF rt THEN qsnap ELSE NoSnap
                     /\ fifo' = WithoutId(fifo, pending.transfer.id)
                     /\ UNCHANGED max_size

\* PendingQueue::dequeue_next()
DequeueNext ==
    /\ UNCHANGED notQueue
    /\ IF queue # <<>>
       THEN LET pending == Head(queue) IN
            /\ queue' = Tail(queue)
            /\ index' = RebuildIndex(queue')
            /\ qlast' = QLast("dequeue_next", "", "Some", <<pending.transfer>>, FALSE)
            /\ qsnap' = NoSnap
            /\ fifo' = WithoutId(fifo, pending.transfer.id)
            /\ UNCHANGED max_size
       ELSE /\ qlast' = QLast("dequeue_next", "", "None", <<>>, FALSE)
            /\ qsnap' = NoSnap
            /\ UNCHANGED <<max_size, queue, index, fifo>>

\* PendingQueue::clear()
Clear ==
    /\ queue' = <<>>
    /\ index' = EmptyIndex
    /\ qlast' = QLast("clear", "", "Ok", <<>>, FALSE)
    /\ qsnap' = NoSnap
    /\ fifo' = <<>>
    /\ UNCHANGED max_size
    /\ UNCHANGED notQueue

\* a plausible slip: queue.back() in place of queue.front()
QueueBack(q) == IF q = <<>> THEN <<>> ELSE <<q[Len(q)].transfer>>

\* queue.front().map(|p| &p.transfer) : <<>> is None, <<t>> is Some(t)
QueueFront(q) == IF q = <<>> THEN <<>> ELSE <<Head(q).transfer>>

\* PendingQueue::peek_next() : takes &self, so nothing of the queue changes
PeekNext ==
    /\ qlast' = QLast("peek_next", "", IF QueueFront(queue) = <<>> THEN "None" ELSE "Some",
                      QueueFront(queue), FALSE)
    /\ qsnap' = NoSnap
    /\ UNCHANGED <<max_size, queue, index, fifo>>
    /\ UNCHANGED notQueue

QueueNext == Enqueue \/ Dequeue \/ DequeueNext \/ PeekNext \/ Clear


-----------------------------------------------------------------------------
(* QuickChecker *)

\* The transfers handed to the checker: create_valid_transfer of the tests with
\* each validated field varied over its valid and invalid values. vlc.entries
\* is written as the set of its keys, resources as a sequence.
CheckedTransfers ==
    [id : {"", "transfer_1"}, from : {"", "alice", "bob"}, to : {"", "alice", "bob"},
     amount : {-1, 0, 100}, resources : {<<>>, <<"alice">>},
     vlc : [entries : {{}, {"node1"}}]]

\* a result: Ok(()) or Err(kind(detail)); kinds without a payload carry ""
CheckOk == [kind |-> "Ok", detail |-> ""]

CheckErr(kind, detail) == [kind |-> kind, detail |-> detail]

\* a plausible slip: `<` in place of `<=` in the amount test
AmountNotPositiveStrict(amount) == amount < 0

\* Check 4 of check: transfer.amount <= 0
AmountNotPositive(amount) == amount <= 0

\* QuickChecker::check
CheckResult(transfer) ==
    IF transfer.id = "" THEN CheckErr("EmptyTransferId", "")
    ELSE IF transfer.from = "" THEN CheckErr("InvalidSender", "Sender cannot be empty")
    ELSE IF transfer.to = "" THEN CheckErr("InvalidRecipient", "Recipient cannot be empty")
    ELSE IF AmountNotPositive(transfer.amount)
         THEN CheckErr("InvalidAmount", transfer.amount)
    ELSE IF transfer.resources = <<>> THEN CheckErr("EmptyResources", "")
    ELSE IF transfer.vlc.entries = {} THEN CheckErr("InvalidVLC", "")
    ELSE IF transfer.from = transfer.to
         THEN CheckErr("InvalidRecipient", "Sender and recipient cannot be the same")
    ELSE CheckOk

\* a plausible slip: the sender test of check_format left out
SenderEmptyNever(transfer) == FALSE

\* the second test of check_format: transfer.from.is_empty()
SenderEmpty(transfer) == transfer.from = ""

\* QuickChecker::check_format
CheckFormatResult(transfer) ==
    IF transfer.id = "" THEN CheckErr("EmptyTransferId", "")
    ELSE IF SenderEmpty(transfer) THEN CheckErr("InvalidSender", "Empty sender")
    ELSE CheckOk

CLast(op, transfer, res) == [op |-> op, transfer |-> transfer, res |-> res]

\* QuickChecker::new(timeout_ms): the checker holds nothing the checks read
CheckInit == clast = CLast("new", <<>>, CheckOk)

\* QuickChecker::check(transfer)
Check ==
    /\ \E transfer \in CheckedTransfers :
          clast' = CLast("check", transfer, CheckResult(transfer))
    /\ UNCHANGED notCheck

\* QuickChecker::check_format(transfer)
CheckFormat ==
    /\ \E transfer \in CheckedTransfers :
          clast' = CLast("check_format", transfer, CheckFormatResult(transfer))
    /\ UNCHANGED notCheck

CheckNext == Check \/ CheckFormat

-----------------------------------------------------------------------------
(* Properties of QuickChecker; specification SpecCheck (at the end) *)

\* the seven rules in their stated order, each with the error of its violation
SevenRules(t) ==
    << [holds |-> t.id # "",            err |-> "EmptyTransferId"],
       [holds |-> t.from # "",          err |-> "InvalidSender"],
       [holds |-> t.to # "",            err |-> "InvalidRecipient"],
       [holds |-> t.amount > 0,         err |-> "InvalidAmount"],
       [holds |-> Len(t.resources) > 0, err |-> "EmptyResources"],
       [holds |-> t.vlc.entries # {},   err |-> "InvalidVLC"],
       [holds |-> t.from # t.to,        err |-> "InvalidRecipient"] >>

\* C13: check returns Ok exactly when all seven rules hold, and otherwise the
\* error of the first violated rule in the stated order.
C13_FirstViolatedRule ==
    clast.op = "check" =>
        LET rules == SevenRules(clast.transfer)
            violated == {i \in 1..Len(rules) : ~rules[i].holds}
        IN  /\ (clast.res.kind = "Ok") <=> (violated = {})
            /\ violated # {} =>
                  \E i \in violated :
                      /\ \A j \in violated : i <= j
                      /\ clast.res.kind = rules[i].err

\* C13 witness: check was given a transfer that breaks the amount rule and
\* two later rules, and answered InvalidAmount.
C13_Witness ==
    /\ clast.op = "check"
    /\ clast.res.kind = "InvalidAmount"
    /\ clast.transfer.amount = 0
    /\ clast.transfer.resources = <<>>
    /\ clast.transfer.from = clast.transfer.to

\* C14: check_format validates only id and sender: Ok iff both are non-empty,
\* EmptyTransferId when the id is empty, else InvalidSender. So a transfer
\* accepted by check is accepted by check_format, and when check_format
\* rejects, check rejects with the same error kind.
C14_FormatIsSubsetOfCheck ==
    /\ clast.op = "check_format" =>
          /\ clast.res.kind =
                (IF clast.transfer.id = "" THEN "EmptyTransferId"
                 ELSE IF clast.transfer.from = "" THEN "InvalidSender" ELSE "Ok")
          /\ clast.res.kind # "Ok" =>
                CheckResult(clast.transfer).kind = clast.res.kind
    /\ (clast.op = "check" /\ clast.res.kind = "Ok") =>
          CheckFormatResult(clast.transfer).kind = "Ok"

\* C14 witness: check_format accepted a transfer that check rejects (no
\* recipient, no resources).
C14_Witness ==
    /\ clast.op = "check_format"
    /\ clast.res.kind = "Ok"
    /\ clast.transfer.to = ""
    /\ clast.transfer.resources = <<>>
    /\ CheckResult(clast.transfer).kind = "InvalidRecipient"

-----------------------------------------------------------------------------
(* Properties of PendingQueue; specification SpecQueue (at the end) *)

QueuedIdSet == Range(PendingIds(queue))

\* C1: after any sequence of enqueue, dequeue(id), dequeue_next and clear on a
\* queue created with max_size M, no two queued entries have the same transfer
\* id, and size() <= M.
C1_UniqueIdsAndBounded ==
    /\ \A i, j \in 1..Len(queue) :
          queue[i].transfer.id = queue[j].transfer.id => i = j
    /\ Len(queue) <= max_size

\* C1 witness: an enqueue has just filled a queue of max_size >= 2 whose
\* entries were not enqueued in the order t1, t2, t3.
C1_Witness ==
    /\ max_size >= 2
    /\ Len(queue) = max_size
    /\ qlast.op = "enqueue" /\ qlast.res = "Ok"
    /\ queue[1].transfer.id = "t3"

\* C2: delivery is strict FIFO. After every step the queued ids are exactly the
\* ids still queued in the order their enqueue succeeded (so a dequeue(id) of
\* another entry keeps the order of the rest), and dequeue_next returns the
\* entry enqueued earliest among those queued (none when nothing is queued),
\* whatever the entries' power and priority.
C2_StrictFifo ==
    [][ /\ PendingIds(queue') = fifo'
        /\ qlast'.op = "dequeue_next" =>
              IF fifo = <<>>
              THEN qlast'.res = "None" /\ qlast'.ret = <<>>
              ELSE /\ qlast'.res = "Some"
                   /\ Len(qlast'.ret) = 1
                   /\ qlast'.ret[1].id = Head(fifo)
                   /\ qlast'.ret[1] = Head(queue).transfer
      ]_vars

\* C2 witness: dequeue_next returned t3, enqueued before t2, although t2, now
\* at the head, has the higher priority.
C2_Witness ==
    /\ qlast.op = "dequeue_next" /\ qlast.res = "Some"
    /\ Len(queue) >= 1
    /\ qlast.ret[1].power.lo < queue[1].priority
    /\ qlast.ret[1].id = "t3"
    /\ queue[1].transfer.id = "t2"

\* C8: whenever the queue holds max_size or more entries, enqueue returns
\* QueueFull and leaves the contents, their order and the size unchanged.
C8_QueueFullUnchanged ==
    [][ (qlast'.op = "enqueue" /\ Len(queue) >= max_size) =>
            /\ qlast'.res = "QueueFull"
            /\ queue' = queue
            /\ index' = index
            /\ Len(queue') = max_size
      ]_vars

\* C8 witness: an enqueue of an id that is not queued was refused with
\* QueueFull on a queue holding max_size >= 1 entries.
C8_Witness ==
    /\ qlast.op = "enqueue" /\ qlast.res = "QueueFull"
    /\ max_size >= 1
    /\ Len(queue) = max_size
    /\ qlast.arg.id \notin QueuedIdSet

\* C9 as stated: in every queue state, enqueueing a transfer whose id is
\* already queued returns DuplicateTransfer and leaves the queue unchanged.
C9_DuplicateAlways ==
    [][ (qlast'.op = "enqueue" /\ qlast'.arg.id \in QueuedIdSet) =>
            /\ qlast'.res = "DuplicateTransfer"
            /\ queue' = queue
            /\ index' = index
      ]_vars

\* C9 amended: enqueueing a transfer whose id is already queued leaves the size
\* and contents of the queue unchanged and returns DuplicateTransfer when the
\* queue holds fewer than max_size entries, QueueFull when it is full.
C9_DuplicateUnlessFull ==
    [][ (qlast'.op = "enqueue" /\ qlast'.arg.id \in QueuedIdSet) =>
            /\ qlast'.res = (IF Len(queue) >= max_size THEN "QueueFull"
                             ELSE "DuplicateTransfer")
            /\ queue' = queue
            /\ index' = index
      ]_vars

\* C9 witness: a queued id was enqueued again, with another power score, on a
\* queue that is not full, and DuplicateTransfer came back.
C9_Witness ==
    /\ qlast.op = "enqueue" /\ qlast.res = "DuplicateTransfer"
    /\ Len(queue) < max_size
    /\ \E i \in 1..Len(queue) :
          /\ queue[i].transfer.id = qlast.arg.id
          /\ queue[i].transfer # qlast.arg

\* C10: round trip. When enqueue(t) succeeded and dequeue(t.id) is the next
\* call, it returns t with every field unchanged and the queue is again what it
\* was before the enqueue: same size, same entries, same order.
C10_RoundTrip ==
    (qlast.op = "dequeue" /\ qlast.rt) =>
        /\ qsnap.valid
        /\ qlast.res = "Ok"
        /\ qlast.ret = qsnap.transfer
        /\ queue = qsnap.queue
        /\ Len(queue) = Len(qsnap.queue)

\* C10 witness: the round trip was made on a queue holding two other entries
\* and gave back a transfer whose power score does not fit 32 bits.
C10_Witness ==
    /\ qlast.op = "dequeue" /\ qlast.rt /\ qlast.res = "Ok"
    /\ Len(queue) = 2
    /\ qlast.ret[1].power.hi = 1

\* C11: dequeue(id) for an id that is not queued returns TransferNotFound and
\* leaves the queue and its index unchanged; for a queued id it returns that
\* transfer and removes exactly that one entry, the others keeping their order.
C11_DequeueAbsentOrExactlyOne ==
    [][ qlast'.op = "dequeue" =>
            IF qlast'.arg \notin QueuedIdSet
            THEN /\ qlast'.res = "TransferNotFound"
                 /\ qlast'.ret = <<>>
                 /\ queue' = queue
                 /\ index' = index
            ELSE \E p \in 1..Len(queue) :
                 /\ queue[p].transfer.id = qlast'.arg
                 /\ qlast'.res = "Ok"
                 /\ qlast'.ret = <<queue[p].transfer>>
                 /\ queue' = SubSeq(queue, 1, p - 1) \o SubSeq(queue, p + 1, Len(queue))
                 /\ DOMAIN index' = DOMAIN index \ {qlast'.arg}
      ]_vars

\* C11 witness: dequeue(t2) came back TransferNotFound on a queue that still
\* holds two other transfers, t3 ahead of t1.
C11_Witness ==
    /\ qlast.op = "dequeue" /\ qlast.res = "TransferNotFound" /\ qlast.arg = "t2"
    /\ PendingIds(queue) = <<"t3", "t1">>

\* C12: peek_next leaves the queue unchanged, and a dequeue_next that follows
\* it immediately returns exactly the transfer peek_next returned (none when
\* the queue is empty).
C12_PeekIsNextDequeue ==
    [][ /\ qlast'.op = "peek_next" =>
              /\ queue' = queue
              /\ index' = index
              /\ max_size' = max_size
              /\ (qlast'.res = "None") <=> (queue = <<>>)
        /\ (qlast.op = "peek_next" /\ qlast'.op = "dequeue_next") =>
              /\ qlast'.ret = qlast.ret
              /\ qlast'.res = qlast.res
      ]_vars

\* C12 witness: peek_next returned t2, the head of a queue of three whose last
\* entry is t1.
C12_Witness ==
    /\ qlast.op = "peek_next" /\ qlast.res = "Some"
    /\ qlast.ret[1].id = "t2"
    /\ PendingIds(queue) = <<"t2", "t3", "t1">>

\* C36: after every operation, successful or failed, the keys of the index are
\* exactly the queued ids and index[id] is the position of the entry with that
\* id; so no indexed position lies outside the queue, and the second
\* TransferNotFound branch of dequeue is never taken.
C36_IndexConsistent ==
    /\ DOMAIN index = QueuedIdSet
    /\ \A id \in DOMAIN index :
          /\ ~(index[id] >= Len(queue))
          /\ queue[index[id] + 1].transfer.id = id

\* C36 witness: dequeue(t2) took t2 out of a queue of three, and the rebuilt
\* index gives t3 position 0 and t1 position 1.
C36_Witness ==
    /\ qlast.op = "dequeue" /\ qlast.res = "Ok" /\ qlast.arg = "t2"
    /\ fifo = <<"t3", "t1">>
    /\ PendingIds(queue) = <<"t3", "t1">>
    /\ index["t3"] = 0 /\ index["t1"] = 1

-----------------------------------------------------------------------------
(* SolverRegistry *)

SolverIds == {"solver-1", "solver-2"}

SolverStatus == {"Online", "Busy", "Offline", "Unknown"}

\* values of pending_load and max_capacity callers supply
LoadChoices == {0, 1}

CapacityChoices == {0, 1}

\* values of resource_domains callers supply
DomainChoices == {<<>>}

\* The SolverInfo values passed to register: any status, load and capacity (the
\* fields are public); last_heartbeat is whatever the caller left there and is
\* overwritten by register.
SolverInputs ==
    [id : SolverIds, address : {"127.0.0.1"}, status : SolverStatus,
     resource_domains : DomainChoices, pending_load : LoadChoices,
     max_capacity : CapacityChoices, weight : {100}, last_heartbeat : {0}]

\* a plausible slip: `<=` in place of `<` in the load test
IsAvailableUpToCapacity(s) == s.status = "Online" /\ s.pending_load <= s.max_capacity

\* SolverInfo::is_available
IsAvailable(s) == s.status = "Online" /\ s.pending_load < s.max_capacity

\* a plausible slip: last_hb.duration_since(now), which saturates to zero
TimedOutReversed(t, last_hb, timeout) == Max(last_hb - t, 0) > timeout

\* the test of check_timeouts: now.duration_since(last_hb) > heartbeat_timeout
\* (duration_since saturates to zero)
TimedOut(t, last_hb, timeout) == Max(t - last_hb, 0) > timeout

\* SolverRegistry::check_timeouts at clock reading t: every entry whose
\* heartbeat timed out is forced to Unknown.
CheckTimeouts(table, t, timeout) ==
    [id \in DOMAIN table |->
        IF TimedOut(t, table[id].last_heartbeat, timeout) /\ table[id].status # "Unknown"
        THEN [table[id] EXCEPT !.status = "Unknown"]
        ELSE table[id]]

\* the values of a table: what solvers.values().cloned() yields, in no order
Values(table) == {table[id] : id \in DOMAIN table}

EmptyTable == [k \in {} |-> 0]

\* arg is <<>>, <<the SolverInfo passed to register>> or <<the resource key>>
RLast(op, id, arg, at, ret) ==
    [op |-> op, id |-> id, arg |-> arg, at |-> at, ret |-> ret]

\* SolverRegistry::new / with_timeout
RegistryInit ==
    /\ solvers = EmptyTable
    /\ heartbeat_timeout \in 1..MaxTimeout
    /\ now = 0
    /\ rlast = RLast("new", "", <<>>, 0, {})
    /\ held = {}

\* time passes between calls
Tick ==
    /\ now < MaxNow
    /\ now' = now + 1
    /\ UNCHANGED <<solvers, heartbeat_timeout, rlast>>
    /\ UNCHANGED notRegistry

\* a plausible slip: the heartbeat stamp of register left out
StampKept(solver, t) == solver

\* register: solver.last_heartbeat = Some(Instant::now())
Stamp(solver, t) == [solver EXCEPT !.last_heartbeat = t]

\* a plausible slip: heartbeat turning every status to Online
PromoteAlways(status) == "Online"

\* heartbeat: a status of Unknown becomes Online, any other status stays
Promote(status) == IF status = "Unknown" THEN "Online" ELSE status

\* SolverRegistry::register(solver), for a solver out of `inputs`
RegisterOf(inputs) ==
    \E solver \in inputs :
        /\ solvers' = [id \in (DOMAIN solvers) \cup {solver.id} |->
                          IF id = solver.id
                          THEN Stamp(solver, now)
                          ELSE solvers[id]]
        /\ rlast' = RLast("register", solver.id, <<solver>>, now, {})
        /\ UNCHANGED <<heartbeat_timeout, now>>
        /\ UNCHANGED notRegistry

Register == RegisterOf(SolverInputs)

\* SolverRegistry::unregister(solver_id)
Unregister ==
    \E solver_id \in SolverIds :
        /\ solvers' = [id \in (DOMAIN solvers) \ {solver_id} |-> solvers[id]]
        /\ rlast' = RLast("unregister", solver_id, <<>>, now, {})
        /\ UNCHANGED <<heartbeat_timeout, now>>
        /\ UNCHANGED notRegistry

\* SolverRegistry::heartbeat(solver_id)
Heartbeat ==
    \E solver_id \in SolverIds :
        /\ solvers' = IF solver_id \in DOMAIN solvers
                      THEN [solvers EXCEPT ![solver_id] =
                              [@ EXCEPT !.last_heartbeat = now,
                                        !.status = Promote(@)]]
                      ELSE solvers
        /\ rlast' = RLast("heartbeat", solver_id, <<>>, now, {})
        /\ UNCHANGED <<heartbeat_timeout, now>>
        /\ UNCHANGED notRegistry

\* a plausible slip: update_status written like heartbeat, stamping the entry
WithStatusStamped(solver, status, t) ==
    [solver EXCEPT !.status = status, !.last_heartbeat = t]

\* update_status: solver.status = status (t is the clock, which it does not read)
WithStatus(solver, status, t) == [solver EXCEPT !.status = status]

\* SolverRegistry::update_status(solver_id, status)
UpdateStatus ==
    \E solver_id \in SolverIds, status \in SolverStatus :
        /\ solvers' = IF solver_id \in DOMAIN solvers
                      THEN [solvers EXCEPT ![solver_id] = WithStatus(@, status, now)]
                      ELSE solvers
        /\ rlast' = RLast("update_status", solver_id, <<>>, now, {})
        /\ UNCHANGED <<heartbeat_timeout, now>>
        /\ UNCHANGED notRegistry

\* SolverRegistry::update_load(solver_id, pending_load)
UpdateLoad ==
    \E solver_id \in SolverIds, pending_load \in LoadChoices :
        /\ solvers' = IF solver_id \in DOMAIN solvers
                      THEN [solvers EXCEPT ![solver_id].pending_load = pending_load]
                      ELSE solvers
        /\ rlast' = RLast("update_load", solver_id, <<>>, now, {})
        /\ UNCHANGED <<heartbeat_timeout, now>>
        /\ UNCHANGED notRegistry

\* SolverRegistry::get_available(): the timeout sweep (a write), then the
\* filtered read. The call is made at clock reading `now`; the sweep reads the
\* clock when it holds the lock, which may be later.
GetAvailable ==
    \E d \in {0, 1} :
        /\ now + d <= MaxNow
        /\ now' = now + d
        /\ solvers' = CheckTimeouts(solvers, now + d, heartbeat_timeout)
        /\ rlast' = RLast("get_available", "", <<>>, now,
                          {s \in Values(solvers') : IsAvailable(s)})
        /\ UNCHANGED heartbeat_timeout
        /\ UNCHANGED notRegistry

\* str::starts_with on strings written as sequences of characters
StartsWith(str, prefix) ==
    Len(prefix) <= Len(str) /\ SubSeq(str, 1, Len(prefix)) = prefix

\* a plausible slip: the test for the "*" domain left out
CanHandleResourceNoWildcard(s, resource) ==
    \/ s.resource_domains = <<>>
    \/ \E i \in 1..Len(s.resource_domains) : StartsWith(resource, s.resource_domains[i])

\* SolverInfo::can_handle_resource
CanHandleResource(s, resource) ==
    IF s.resource_domains = <<>> THEN TRUE
    ELSE \E i \in 1..Len(s.resource_domains) :
            \/ StartsWith(resource, s.resource_domains[i])
            \/ s.resource_domains[i] = <<"*">>

\* domain lists given to with_domains, as lists of strings: none, ["a:"],
\* ["b:", "*"] and [""]
ResourceDomainChoices ==
    { <<>>, << <<"a", ":">> >>, << <<"b", ":">>, <<"*">> >>, << <<>> >> }

\* resource keys asked for: "a:x", "a" and "c"
ResourceKeys == { <<"a", ":", "x">>, <<"a">>, <<"c">> }

\* SolverInfo::new(id, address).with_domains(domains)
ResourceInputs ==
    [id : SolverIds, address : {"127.0.0.1"}, status : {"Online"},
     resource_domains : ResourceDomainChoices, pending_load : {0},
     max_capacity : {10000}, weight : {100}, last_heartbeat : {0}]

RegisterWithDomains == RegisterOf(ResourceInputs)

\* SolverRegistry::get_available_for_resource(resource): the timeout sweep,
\* then the read filtered by is_available and can_handle_resource
GetAvailableForResource ==
    \E resource \in ResourceKeys, d \in {0, 1} :
        /\ now + d <= MaxNow
        /\ now' = now + d
        /\ solvers' = CheckTimeouts(solvers, now + d, heartbeat_timeout)
        /\ rlast' = RLast("get_available_for_resource", "", <<resource>>, now,
                          {s \in Values(solvers') :
                              IsAvailable(s) /\ CanHandleResource(s, resource)})
        /\ UNCHANGED heartbeat_timeout
        /\ UNCHANGED notRegistry

\* the registry used with resource domains
ResourceNext ==
    Tick \/ RegisterWithDomains \/ Unregister \/ Heartbeat \/ GetAvailable
        \/ GetAvailableForResource

\* a plausible slip: handing out the registry's own value, shared with the
\* caller, in place of a copy
Shared(v) == [copy |-> FALSE, val |-> v]

\* .cloned() : the caller gets a value of its own, equal to the registry's at
\* the time of the call
Cloned(v) == [copy |-> TRUE, val |-> v]

\* what the holder of a returned value reads in it
Observe(h, table) ==
    IF h.copy \/ h.val.id \notin DOMAIN table THEN h.val ELSE table[h.val.id]

\* the solvers registered in the runs that keep returned values
SnapshotInputs ==
    [id : {"solver-1"}, address : {"127.0.0.1"}, status : {"Online"},
     resource_domains : {<<>>}, pending_load : {0},
     max_capacity : CapacityChoices, weight : {100}, last_heartbeat : {0}]

RegisterOne == RegisterOf(SnapshotInputs)

\* SolverRegistry::get(solver_id), the caller keeping the value
Get ==
    \E solver_id \in SolverIds :
        /\ held' = IF solver_id \in DOMAIN solvers
                   THEN {Cloned(solvers[solver_id])} ELSE {}
        /\ rlast' = RLast("get", solver_id, <<>>, now, {h.val : h \in held'})
        /\ UNCHANGED <<solvers, heartbeat_timeout, now>>
        /\ UNCHANGED notRegistryNorCaller

\* SolverRegistry::get_all(), the caller keeping the values
GetAll ==
    /\ held' = {Cloned(s) : s \in Values(solvers)}
    /\ rlast' = RLast("get_all", "", <<>>, now, {h.val : h \in held'})
    /\ UNCHANGED <<solvers, heartbeat_timeout, now>>
    /\ UNCHANGED notRegistryNorCaller

\* SolverRegistry::get_available(), the caller keeping the values
GetAvailableKept ==
    \E d \in {0, 1} :
        /\ now + d <= MaxNow
        /\ now' = now + d
        /\ solvers' = CheckTimeouts(solvers, now + d, heartbeat_timeout)
        /\ held' = {Cloned(s) : s \in {v \in Values(solvers') : IsAvailable(v)}}
        /\ rlast' = RLast("get_available", "", <<>>, now, {h.val : h \in held'})
        /\ UNCHANGED heartbeat_timeout
        /\ UNCHANGED notRegistryNorCaller

\* SolverRegistry::get_available_for_resource(resource), the caller keeping
\* the values
GetAvailableForResourceKept ==
    \E resource \in ResourceKeys, d \in {0, 1} :
        /\ now + d <= MaxNow
        /\ now' = now + d
        /\ solvers' = CheckTimeouts(solvers, now + d, heartbeat_timeout)
        /\ held' = {Cloned(s) : s \in {v \in Values(solvers') :
                                          IsAvailable(v) /\ CanHandleResource(v, resource)}}
        /\ rlast' = RLast("get_available_for_resource", "", <<resource>>, now,
                          {h.val : h \in held'})
        /\ UNCHANGED heartbeat_timeout
        /\ UNCHANGED notRegistryNorCaller

\* the caller writes to a value it was given (the fields are public)
MutateHeld ==
    \E h \in held, status \in SolverStatus :
        /\ IF h.copy
           THEN /\ held' = (held \ {h}) \cup {[h EXCEPT !.val.status = status]}
                /\ UNCHANGED solvers
           ELSE /\ solvers' = IF h.val.id \in DOMAIN solvers
                               THEN [solvers EXCEPT ![h.val.id].status = status]
                               ELSE solvers
                /\ UNCHANGED held
        /\ rlast' = RLast("caller_writes", h.val.id, <<>>, now, {})
        /\ UNCHANGED <<heartbeat_timeout, now>>
        /\ UNCHANGED notRegistryNorCaller

\* the registry with a caller that keeps what it is given
SnapshotNext ==
    Tick \/ RegisterOne \/ Unregister \/ Heartbeat \/ UpdateStatus \/ UpdateLoad
        \/ GetAvailable \/ Get \/ GetAll \/ GetAvailableKept
        \/ GetAvailableForResourceKept \/ MutateHeld

\* SolverRegistry::count()
Count(table) == Cardinality(DOMAIN table)

\* SolverRegistry::available_count(): get_available().len(), sweep included
AvailableCount ==
    \E d \in {0, 1} :
        /\ now + d <= MaxNow
        /\ now' = now + d
        /\ solvers' = CheckTimeouts(solvers, now + d, heartbeat_timeout)
        /\ rlast' = RLast("available_count", "", <<>>, now,
                          Cardinality({s \in Values(solvers') : IsAvailable(s)}))
        /\ UNCHANGED heartbeat_timeout
        /\ UNCHANGED notRegistry

RegistryNext ==
    Tick \/ Register \/ Unregister \/ Heartbeat \/ UpdateStatus \/ UpdateLoad
        \/ GetAvailable \/ AvailableCount

-----------------------------------------------------------------------------
(* Properties of SolverRegistry; specification SpecRegistry (at the end) *)

\* C3: after any sequence of registry operations, get_available() returns no
\* solver whose last heartbeat (stamped by register or heartbeat) is older than
\* heartbeat_timeout at the time of the call, whether or not update_status was
\* ever called for it.
C3_NoTimedOutSolverReturned ==
    rlast.op = "get_available" =>
        \A s \in rlast.ret :
            /\ s.id \in DOMAIN solvers
            /\ s.last_heartbeat = solvers[s.id].last_heartbeat
            /\ ~(rlast.at - s.last_heartbeat > heartbeat_timeout)

\* C3 witness: get_available returned one solver and left out another one that
\* has load below capacity and a heartbeat older than the timeout, and that the
\* sweep of this call turned to Unknown.
C3_Witness ==
    /\ rlast.op = "get_available"
    /\ rlast.ret # {}
    /\ \E id \in DOMAIN solvers :
          /\ rlast.at - solvers[id].last_heartbeat > heartbeat_timeout
          /\ solvers[id].pending_load < solvers[id].max_capacity
          /\ solvers[id].status = "Unknown"
          /\ solvers[id] \notin rlast.ret

\* the registered solvers that are Online with pending_load < max_capacity
OnlineBelowCapacity ==
    {solvers[id] : id \in {i \in DOMAIN solvers :
                              /\ solvers[i].status = "Online"
                              /\ solvers[i].pending_load < solvers[i].max_capacity}}

\* C15: with no concurrent registry operation, get_available() returns exactly
\* the registered solvers that after the timeout sweep are Online with
\* pending_load < max_capacity (so none with max_capacity 0 or with status
\* Busy, Offline or Unknown), and available_count() is the length of that list
\* and at most count().
C15_AvailableExactly ==
    /\ rlast.op \in {"get_available", "available_count"} =>
          \A id \in DOMAIN solvers :
              rlast.at - solvers[id].last_heartbeat > heartbeat_timeout =>
                  solvers[id].status = "Unknown"
    /\ rlast.op = "get_available" =>
          /\ rlast.ret = OnlineBelowCapacity
          /\ \A s \in rlast.ret :
                s.max_capacity # 0 /\ s.status \notin {"Busy", "Offline", "Unknown"}
    /\ rlast.op = "available_count" =>
          /\ rlast.ret = Cardinality(OnlineBelowCapacity)
          /\ rlast.ret <= Count(solvers)

\* C15 witness: two solvers are registered, both Online with a fresh
\* heartbeat; get_available returned one and left out the one whose
\* max_capacity is 0.
C15_Witness ==
    /\ rlast.op = "get_available"
    /\ Count(solvers) = 2
    /\ Cardinality(rlast.ret) = 1
    /\ \E id \in DOMAIN solvers :
          /\ solvers[id].status = "Online"
          /\ solvers[id].max_capacity = 0
          /\ solvers[id].pending_load = 0
          /\ solvers[id] \notin rlast.ret

\* C18: get_available_for_resource(key) returns exactly the solvers that
\* get_available() would return and whose domain list is empty, or holds "*",
\* or holds a domain the key starts with.
C18_AvailableForResource ==
    rlast.op = "get_available_for_resource" =>
        LET key == rlast.arg[1]
            IsPrefix(d) == \E n \in 0..Len(key) : SubSeq(key, 1, n) = d
            handles(s) ==
                \/ Len(s.resource_domains) = 0
                \/ \E d \in Range(s.resource_domains) : d = <<"*">> \/ IsPrefix(d)
        IN  /\ rlast.ret = {s \in OnlineBelowCapacity : handles(s)}
            /\ \A s \in rlast.ret : CanHandleResource(s, key)
            /\ \A s \in OnlineBelowCapacity \ rlast.ret : ~CanHandleResource(s, key)

\* C18 witness: both solvers are available; for the key "c" the call returned
\* the one with domains ["b:", "*"] and left out the one with domains ["a:"].
C18_Witness ==
    /\ rlast.op = "get_available_for_resource"
    /\ rlast.arg = << <<"c">> >>
    /\ Cardinality(OnlineBelowCapacity) = 2
    /\ \E s \in rlast.ret : s.resource_domains = << <<"b", ":">>, <<"*">> >>
    /\ \E s \in OnlineBelowCapacity \ rlast.ret : s.resource_domains = << <<"a", ":">> >>

C16_HeartbeatStampsAndPromotes ==
    [][ (rlast'.op = "heartbeat" /\ now' = now) =>
            LET id == rlast'.id IN
            IF id \in DOMAIN solvers
            THEN /\ DOMAIN solvers' = DOMAIN solvers
                 /\ solvers'[id].last_heartbeat = now
                 /\ solvers'[id].status =
                       (IF solvers[id].status = "Unknown" THEN "Online"
                        ELSE solvers[id].status)
                 /\ [solvers'[id] EXCEPT !.last_heartbeat = 0, !.status = "Online"]
                       = [solvers[id] EXCEPT !.last_heartbeat = 0, !.status = "Online"]
                 /\ \A other \in DOMAIN solvers \ {id} : solvers'[other] = solvers[other]
            ELSE solvers' = solvers
      ]_vars

\* C16 witness: a heartbeat at a later clock reading left a Busy solver Busy
\* and stamped it.
C16_Witness ==
    /\ rlast.op = "heartbeat"
    /\ rlast.id \in DOMAIN solvers
    /\ solvers[rlast.id].status = "Busy"
    /\ solvers[rlast.id].last_heartbeat = now
    /\ now > 0

\* C17: register(s) inserts or wholly replaces the entry for s.id with the
\* supplied fields and a heartbeat stamped to now. The registry holds one entry
\* per solver id, count() grows by one iff the id was not registered, and every
\* other entry is unchanged.
C17_RegisterInsertsOrReplaces ==
    [][ (rlast'.op = "register" /\ now' = now) =>
            LET s == rlast'.arg[1] IN
            /\ DOMAIN solvers' = DOMAIN solvers \cup {s.id}
            /\ solvers'[s.id] = [s EXCEPT !.last_heartbeat = now]
            /\ \A other \in DOMAIN solvers \ {s.id} : solvers'[other] = solvers[other]
            /\ \A id \in DOMAIN solvers' : solvers'[id].id = id
            /\ Count(solvers') = Count(solvers) + (IF s.id \in DOMAIN solvers THEN 0 ELSE 1)
      ]_vars

\* C17 witness: register replaced, at a later clock reading, the entry of a
\* solver while another solver is registered; the new entry is Offline.
C17_Witness ==
    /\ rlast.op = "register"
    /\ Count(solvers) = 2
    /\ now > 0
    /\ solvers[rlast.id].last_heartbeat = now
    /\ solvers[rlast.id].status = "Offline"
    /\ \E other \in DOMAIN solvers : solvers[other].last_heartbeat < now

-----------------------------------------------------------------------------
(* Solver selection strategies: ConsistentHashStrategy, LoadBalancedStrategy *)

\* the bytes that occur in solver ids, ring keys and routing keys
Alphabet == <<"a", "b", ":", "0", "1", "2", "3", "4", "5", "6", "7", "8", "9">>

Code(c) == CHOOSE i \in 1..Len(Alphabet) : Alphabet[i] = c

HashBase == Len(Alphabet) + 1

\* blake3 over a byte string, cut to the first 8 bytes of the digest read
\* little-endian (hash_key and solvers_hash end the same way). The digest is
\* taken to be collision-free: the model's value is the number the bytes spell,
\* little-endian, in base HashBase, which is a function of the bytes alone and
\* differs for any two different byte strings of the model.
RECURSIVE HashBytes(_)
HashBytes(bytes) ==
    IF bytes = <<>> THEN 0
    ELSE Code(Head(bytes)) + HashBase * HashBytes(Tail(bytes))

\* ConsistentHashStrategy::hash_key
HashKey(key) == HashBytes(key)

DecimalDigits == <<"0", "1", "2", "3", "4", "5", "6", "7", "8", "9">>

\* Display of an unsigned integer, as format! writes it
RECURSIVE Decimal(_)
Decimal(n) ==
    IF n < 10 THEN <<DecimalDigits[n + 1]>>
    ELSE Decimal(n \div 10) \o <<DecimalDigits[(n % 10) + 1]>>

\* format!("{}:{}", solver.id, vn)
RingKey(id, vn) == id \o <<":">> \o Decimal(vn)

\* solver ids of the lists passed to the consistent-hash strategy
HashedIds == {<<"a">>, <<"b">>, <<"a", "b">>, <<"b", "a">>}

\* the id sequences of those lists: up to MaxSolvers different ids, as a
\* registry snapshot holds them, in any order
HashedIdLists ==
    {f \in UNION {[1..n -> HashedIds] : n \in 0..MaxSolvers} :
        \A i, j \in 1..Len(f) : f[i] = f[j] => i = j}

\* routing keys passed to select
RoutingKeys == {<<"a", ":", "0">>, <<"9", "9", "9", "9">>}

RoutingKeyHash == [key \in RoutingKeys |-> HashKey(key)]

\* virtual_nodes values a strategy is created with (with_virtual_nodes)
VirtualNodeChoices == {0, 2}

\* The ring built from the ids of a list: for each solver at index idx
\* (0-based) and each vn in 0..virtual_nodes, ring.insert(hash_key(key), idx);
\* an insert at a hash already present overwrites the index stored there.
RingOfIds(ids, vnodes) ==
    LET pts == {<<i, vn>> : i \in 1..Len(ids), vn \in 0..(vnodes - 1)}
        pos == [p \in pts |-> HashKey(RingKey(ids[p[1]], p[2]))]
        notBefore(p, q) == p[1] > q[1] \/ (p[1] = q[1] /\ p[2] >= q[2])
    IN  [h \in {pos[p] : p \in pts} |->
            (CHOOSE p \in pts :
                pos[p] = h /\ \A q \in pts : pos[q] = h => notBefore(p, q))[1] - 1]

\* what the hasher of solvers_hash has absorbed: update(s.id) for every solver
\* in list order, nothing between two ids
RECURSIVE AbsorbedIds(_)
AbsorbedIds(ids) ==
    IF ids = <<>> THEN <<>> ELSE Head(ids) \o AbsorbedIds(Tail(ids))

\* the hashes and the rings of the model's lists and keys, computed once
\* (f @@ <<>> is f, written out as an explicit table)
SolversHashTable == [ids \in HashedIdLists |-> HashBytes(AbsorbedIds(ids))] @@ <<>>

RingTable ==
    [ids \in HashedIdLists, vnodes \in VirtualNodeChoices |-> RingOfIds(ids, vnodes)]
        @@ <<>>

IdsOf(list) == [i \in 1..Len(list) |-> list[i].id]

\* a plausible slip: the load of the solvers hashed along with their ids
SolversHashWithLoad(list) ==
    SolversHashTable[IdsOf(list)] + (IF list = <<>> THEN 0 ELSE list[1].pending_load)

\* ConsistentHashStrategy::solvers_hash
SolversHash(list) == SolversHashTable[IdsOf(list)]

\* the loop of get_or_build_ring that builds a new ring from the solver list
BuildRing(list, vnodes) == RingTable[IdsOf(list), vnodes]

\* ConsistentHashStrategy::get_or_build_ring : the ring used by the call and
\* the cache after it.
GetOrBuildRing(cache, list, vnodes) ==
    LET current_hash == SolversHash(list) IN
    IF cache # <<>> /\ cache[1].hash = current_hash
    THEN [ring |-> cache[1].ring, cache |-> cache, rebuilt |-> FALSE]
    ELSE LET ring == BuildRing(list, vnodes) IN
         [ring |-> ring, cache |-> <<[hash |-> current_hash, ring |-> ring]>>,
          rebuilt |-> TRUE]

\* ConsistentHashStrategy::find_in_ring : <<>> is None, <<idx>> is Some(idx)
FindInRing(ring, hash) ==
    IF DOMAIN ring = {} THEN <<>>
    ELSE LET atOrAfter == {h \in DOMAIN ring : h >= hash}
             from == IF atOrAfter # {} THEN atOrAfter ELSE DOMAIN ring
             first == CHOOSE h \in from : \A g \in from : h <= g
         IN  <<ring[first]>>

\* a plausible slip: the single-solver shortcut left out
IsSingleNever(available) == FALSE

\* select: available.len() == 1
IsSingle(available) == Len(available) = 1

\* ConsistentHashStrategy::select on a strategy whose cache is `cache`:
\* the result, the solver returned, the ring index used and the cache left.
\* available[idx] panics when idx is not below available.len().
CHSelectResult(cache, available, routing_key, vnodes) ==
    IF available = <<>>
    THEN [res |-> "NoSolverAvailable", ret |-> <<>>, idx |-> <<>>,
          cache |-> cache, rebuilt |-> FALSE]
    ELSE IF IsSingle(available)
    THEN [res |-> "Ok", ret |-> <<available[1]>>, idx |-> <<>>,
          cache |-> cache, rebuilt |-> FALSE]
    ELSE LET g == GetOrBuildRing(cache, available, vnodes)
             found == FindInRing(g.ring, RoutingKeyHash[routing_key])
         IN  IF found = <<>>
             THEN [res |-> "NoSolverAvailable", ret |-> <<>>, idx |-> <<>>,
                   cache |-> g.cache, rebuilt |-> g.rebuilt]
             ELSE IF found[1] >= Len(available)
             THEN [res |-> "Panic", ret |-> <<>>, idx |-> found,
                   cache |-> g.cache, rebuilt |-> g.rebuilt]
             ELSE [res |-> "Ok", ret |-> <<available[found[1] + 1]>>, idx |-> found,
                   cache |-> g.cache, rebuilt |-> g.rebuilt]

\* f64 values are written as fractions n/d with d > 0, or NaN. The loads,
\* capacities and weights of the model are small integers, for which `as f64`
\* is exact and the f64 quotients, differences and products compare as the
\* fractions do.
Frac(n, d) == [nan |-> FALSE, n |-> n, d |-> d]

NaN == [nan |-> TRUE, n |-> 0, d |-> 1]

\* `<` on f64: false when either side is NaN
FLess(x, y) == ~x.nan /\ ~y.nan /\ x.n * y.d < y.n * x.d

\* SolverInfo::load_ratio
LoadRatio(s) ==
    IF s.max_capacity = 0 THEN Frac(1, 1) ELSE Frac(s.pending_load, s.max_capacity)

\* the score of the weighted pick: (1.0 - load_ratio) * weight
Score(s) == LET r == LoadRatio(s) IN Frac((r.d - r.n) * s.weight, r.d)

\* a plausible slip: min_by in place of max_by on the scores
MinByScore(list) ==
    list[CHOOSE i \in 1..Len(list) :
            /\ \A j \in 1..Len(list) : ~FLess(Score(list[j]), Score(list[i]))
            /\ \A j \in 1..(i - 1) : FLess(Score(list[i]), Score(list[j]))]

\* Iterator::max_by on the scores: the last of the maximal elements
MaxByScore(list) ==
    list[CHOOSE i \in 1..Len(list) :
            /\ \A j \in 1..Len(list) : ~FLess(Score(list[i]), Score(list[j]))
            /\ \A j \in (i + 1)..Len(list) : FLess(Score(list[j]), Score(list[i]))]

\* a plausible slip: max_by in place of min_by on the load ratios
MaxByLoadRatio(list) ==
    list[CHOOSE i \in 1..Len(list) :
            /\ \A j \in 1..Len(list) : ~FLess(LoadRatio(list[i]), LoadRatio(list[j]))
            /\ \A j \in (i + 1)..Len(list) : FLess(LoadRatio(list[j]), LoadRatio(list[i]))]

\* Iterator::min_by on the load ratios: the first of the minimal elements
MinByLoadRatio(list) ==
    list[CHOOSE i \in 1..Len(list) :
            /\ \A j \in 1..Len(list) : ~FLess(LoadRatio(list[j]), LoadRatio(list[i]))
            /\ \A j \in 1..(i - 1) : FLess(LoadRatio(list[i]), LoadRatio(list[j]))]

\* LoadBalancedStrategy::select
LBSelectResult(available, threshold) ==
    IF available = <<>>
    THEN [res |-> "NoSolverAvailable", ret |-> <<>>]
    ELSE LET below(s) == FLess(LoadRatio(s), threshold)
             candidates == SelectSeq(available, below)
         IN  IF candidates # <<>>
             THEN [res |-> "Ok", ret |-> <<MaxByScore(candidates)>>]
             ELSE [res |-> "Ok", ret |-> <<MinByLoadRatio(available)>>]

\* SolverInfo::new(id, address)
SolverInfoNew(id) ==
    [id |-> id, address |-> "127.0.0.1", status |-> "Online", resource_domains |-> <<>>,
     pending_load |-> 0, max_capacity |-> 10000, weight |-> 100, last_heartbeat |-> 0]

\* address, status, load, capacity and weight of the solvers of a list passed
\* to the consistent-hash strategy: as SolverInfo::new leaves them, or changed
SolverFieldChoices ==
    { [address |-> "127.0.0.1", status |-> "Online", pending_load |-> 0,
       max_capacity |-> 10000, weight |-> 100],
      [address |-> "10.0.0.7", status |-> "Busy", pending_load |-> 5,
       max_capacity |-> 7, weight |-> 1],
      [address |-> "127.0.0.1", status |-> "Offline", pending_load |-> 10000,
       max_capacity |-> 10000, weight |-> 100] }

WithFields(s, f) ==
    [s EXCEPT !.address = f.address, !.status = f.status,
              !.pending_load = f.pending_load, !.max_capacity = f.max_capacity,
              !.weight = f.weight]

\* the lists passed to the consistent-hash strategy
HashedLists == {[i \in 1..Len(ids) |-> SolverInfoNew(ids[i])] : ids \in HashedIdLists}

\* lists of the solvers "a" and "b" in either order, with their fields as
\* SolverInfo::new leaves them or changed
FieldLists ==
    {[i \in 1..Len(ids) |-> WithFields(SolverInfoNew(ids[i]), f)] :
        ids \in {l \in HashedIdLists : Range(l) \subseteq {<<"a">>, <<"b">>}},
        f \in SolverFieldChoices}

\* load, capacity and weight of the solvers passed to the load-balanced strategy
LoadFields ==
    [pending_load : {0, 1, 2}, max_capacity : {2}, weight : {1, 2}]
        \cup [pending_load : {0, 1}, max_capacity : {0}, weight : {1}]
        \cup [pending_load : {0, 1}, max_capacity : {2}, weight : {0}]

BalancedLists ==
    {[i \in 1..Len(f) |->
        [SolverInfoNew(Decimal(i)) EXCEPT !.pending_load = f[i].pending_load,
                                          !.max_capacity = f[i].max_capacity,
                                          !.weight = f[i].weight]] :
        f \in UNION {[1..n -> LoadFields] : n \in 0..MaxSolvers}}

\* LoadBalancedStrategy::new (0.9) and with_threshold
Thresholds == {Frac(9, 10), Frac(1, 2), Frac(0, 1), Frac(3, 2), NaN}

SLast(op, available, key, res, ret, idx) ==
    [op |-> op, available |-> available, key |-> key, res |-> res, ret |-> ret,
     idx |-> idx]

\* ConsistentHashStrategy::with_virtual_nodes, or
\* LoadBalancedStrategy::with_threshold together with the list it is given
SelectInit ==
    /\ ring_cache = <<>>
    /\ ring_built_for = <<>>
    /\ ring_built_from = <<>>
    /\ slast = SLast("new", <<>>, <<>>, "Ok", <<>>, <<>>)
    /\ \/ /\ strategy = "ConsistentHash"
          /\ virtual_nodes \in VirtualNodeChoices
          /\ load_threshold = Frac(9, 10)
          /\ lb_available = <<>>
       \/ /\ strategy = "LoadBalanced"
          /\ virtual_nodes = 0
          /\ load_threshold \in Thresholds
          /\ lb_available \in BalancedLists

\* ConsistentHashStrategy::select(available, routing_key), for a list out of `lists`
CHSelectOf(lists) ==
    /\ strategy = "ConsistentHash"
    /\ \E available \in lists, routing_key \in RoutingKeys :
          LET r == CHSelectResult(ring_cache, available, routing_key, virtual_nodes) IN
          /\ ring_cache' = r.cache
          /\ ring_built_for' = IF r.rebuilt THEN IdsOf(available) ELSE ring_built_for
          /\ ring_built_from' = IF r.rebuilt THEN available ELSE ring_built_from
          /\ slast' = SLast("select", available, routing_key, r.res, r.ret, r.idx)
    /\ UNCHANGED <<strategy, virtual_nodes, load_threshold, lb_available>>
    /\ UNCHANGED notSelect

CHSelect == CHSelectOf(HashedLists)

CHSelectWithFields == CHSelectOf(FieldLists)

\* LoadBalancedStrategy::select(available, _routing_key)
LBSelect ==
    /\ strategy = "LoadBalanced"
    /\ \E routing_key \in RoutingKeys :
          LET r == LBSelectResult(lb_available, load_threshold) IN
          slast' = SLast("select", lb_available, routing_key, r.res, r.ret, <<>>)
    /\ UNCHANGED <<strategy, virtual_nodes, ring_cache, ring_built_for, ring_built_from,
                   load_threshold, lb_available>>
    /\ UNCHANGED notSelect

SelectNext == CHSelect \/ LBSelect

\* the last operation was a consistent-hash select on a non-empty list
CHSelected ==
    strategy = "ConsistentHash" /\ slast.op = "select" /\ slast.available # <<>>

\* what a freshly constructed strategy with the same virtual_nodes answers
FreshSelect == CHSelectResult(<<>>, slast.available, slast.key, virtual_nodes)

\* C4: consistent-hash select(S, k) on a non-empty S gives the result of a
\* freshly constructed strategy with the same virtual_nodes, whatever calls
\* were made on the instance before.
C4_SelectIsPure ==
    CHSelected => slast.res = FreshSelect.res /\ slast.ret = FreshSelect.ret

\* C5: consistent-hash select on a non-empty list never crashes: the ring
\* index it uses is below available.len() and the solver it returns is an
\* element of the list passed in the call.
C5_SelectNeverPanics ==
    CHSelected =>
        /\ slast.res # "Panic"
        /\ slast.idx # <<>> => slast.idx[1] < Len(slast.available)
        /\ slast.ret # <<>> => slast.ret[1] \in Range(slast.available)

\* C6: after a select that consults the ring (two solvers or more), the cached
\* ring is the one built for the ordered identifiers of the list of that call.
C6_StaleRingNeverReused ==
    (CHSelected /\ Len(slast.available) >= 2) =>
        /\ ring_built_for = IdsOf(slast.available)
        /\ ring_cache = <<[hash |-> SolversHash(slast.available),
                           ring |-> BuildRing(slast.available, virtual_nodes)]>>

\* C7: for both strategies and every configuration, select returns
\* NoSolverAvailable exactly when the available list is empty, and on a
\* non-empty list it returns a solver.
C7_NoSolverIffEmpty ==
    slast.op = "select" =>
        /\ slast.res = "NoSolverAvailable" <=> slast.available = <<>>
        /\ slast.available # <<>> => slast.res = "Ok" /\ slast.ret # <<>>

\* the last operation was a load-balanced select
LBSelected == strategy = "LoadBalanced" /\ slast.op = "select"

\* load_ratio as the statement defines it: pending_load / max_capacity, 1.0 if
\* the capacity is 0; and the score (1 - load_ratio) * weight
RatioOf(s) ==
    IF s.max_capacity = 0 THEN Frac(1, 1) ELSE Frac(s.pending_load, s.max_capacity)

ScoreOf(s) == Frac((RatioOf(s).d - RatioOf(s).n) * s.weight, RatioOf(s).d)

BelowThreshold(list) ==
    {i \in 1..Len(list) : FLess(RatioOf(list[i]), load_threshold)}

\* the solver returned has a maximal score among those below the threshold
ReturnsBestBelow ==
    /\ slast.res = "Ok"
    /\ \E i \in BelowThreshold(slast.available) :
          /\ slast.ret = <<slast.available[i]>>
          /\ \A j \in BelowThreshold(slast.available) :
                ~FLess(ScoreOf(slast.available[i]), ScoreOf(slast.available[j]))

EqualCapacityAndWeight(list) ==
    \A i, j \in 1..Len(list) :
        list[i].max_capacity = list[j].max_capacity /\ list[i].weight = list[j].weight

ReturnsSmallestLoad ==
    \A j \in 1..Len(slast.available) :
        slast.ret[1].pending_load <= slast.available[j].pending_load

C21_FieldsDoNotInvalidate ==
    [][ (strategy = "ConsistentHash" /\ slast'.op = "select") =>
            LET ids == IdsOf(slast'.available)
                plain == [i \in 1..Len(ids) |-> SolverInfoNew(ids[i])]
                r == CHSelectResult(ring_cache, plain, slast'.key, virtual_nodes)
            IN  /\ slast'.res = r.res
                /\ IdsOf(slast'.ret) = IdsOf(r.ret)
                /\ (Len(ids) >= 2 /\ ring_cache # <<>> /\ ring_built_for = ids) =>
                      /\ ring_cache' = ring_cache
                      /\ ring_built_from' = ring_built_from
      ]_vars

\* C21 witness: select on ["b", "a"], every solver Busy with load 5, capacity 7,
\* weight 1 and another address, returned a solver out of the ring that was
\* built when the same solvers had their initial fields.
C21_Witness ==
    /\ strategy = "ConsistentHash" /\ slast.op = "select" /\ slast.res = "Ok"
    /\ IdsOf(slast.available) = << <<"b">>, <<"a">> >>
    /\ slast.available[1].status = "Busy"
    /\ slast.available[1].pending_load = 5
    /\ ring_built_for = IdsOf(slast.available)
    /\ ring_built_from # slast.available
    /\ ring_built_from[1].status = "Online"
    /\ slast.ret[1].id = <<"a">>

\* C20: when the available list has exactly one solver, consistent-hash select
\* returns that solver for every routing key, whatever the ring cache holds,
\* and leaves the ring cache as it was.
C20_SingleSolverShortCircuit ==
    [][ (strategy = "ConsistentHash" /\ slast'.op = "select"
            /\ Len(slast'.available) = 1) =>
            /\ slast'.res = "Ok"
            /\ slast'.ret = <<slast'.available[1]>>
            /\ slast'.idx = <<>>
            /\ ring_cache' = ring_cache
            /\ ring_built_for' = ring_built_for
      ]_vars

\* C20 witness: select on the single solver "ab" returned it while the cache
\* holds a ring built for ["a", "b"], whose solvers_hash is that of ["ab"].
C20_Witness ==
    /\ strategy = "ConsistentHash" /\ slast.op = "select"
    /\ Len(slast.available) = 1
    /\ slast.ret = <<slast.available[1]>>
    /\ slast.available[1].id = <<"a", "b">>
    /\ ring_built_for = << <<"a">>, <<"b">> >>
    /\ ring_cache # <<>>
    /\ ring_cache[1].hash = SolversHash(slast.available)
    /\ DOMAIN ring_cache[1].ring # {}

-----------------------------------------------------------------------------
(* ObjectShardStrategy *)

MaxObjects == 3

\* types.rs: DEFAULT_SHARD_COUNT
DEFAULT_SHARD_COUNT == 16

\* An ObjectId is [u8; 32]. The model keeps byte 0, byte 1 and one component
\* that stands for bytes 2..31.
ObjectIds ==
    {<<0, b1, 0>> : b1 \in {0, 1, 2}} \cup {<<1, b1, rest>> : b1 \in {0, 1, 2}, rest \in {0, 7}}

\* the slices of at most MaxObjects object ids
ObjectLists == UNION {[1..n -> ObjectIds] : n \in 0..MaxObjects}

\* new() and with_shard_count(n); with_shard_count accepts any u16, 0 included
ShardCounts == {0, 1, 3, 4, DEFAULT_SHARD_COUNT}

\* a plausible slip: the two bytes read in little-endian order
FromLeBytes(b0, b1) == b1 * 256 + b0

\* u16::from_be_bytes([b0, b1])
FromBeBytes(b0, b1) == b0 * 256 + b1

\* route_object where the remainder is defined (shard_count # 0)
RouteObject(count, object_id) == FromBeBytes(object_id[1], object_id[2]) % count

ShardOk(v) == [res |-> "Ok", ret |-> v]

\* `hash % 0` panics: attempt to calculate the remainder with a divisor of zero
ShardPanic == [res |-> "Panic", ret |-> <<>>]

RouteObjectResult(count, object_id) ==
    IF count = 0 THEN ShardPanic ELSE ShardOk(RouteObject(count, object_id))

\* a plausible slip: Iterator::all in place of Iterator::any
IsCrossShardAll(count, objs) ==
    IF Len(objs) <= 1 THEN ShardOk(FALSE)
    ELSE IF count = 0 THEN ShardPanic
    ELSE LET first_shard == RouteObject(count, objs[1])
         IN  ShardOk(\A i \in 2..Len(objs) : RouteObject(count, objs[i]) # first_shard)

\* is_cross_shard
IsCrossShardResult(count, objs) ==
    IF Len(objs) <= 1 THEN ShardOk(FALSE)
    ELSE IF count = 0 THEN ShardPanic
    ELSE LET first_shard == RouteObject(count, objs[1])
         IN  ShardOk(\E i \in 2..Len(objs) : RouteObject(count, objs[i]) # first_shard)

\* Vec::sort on u16: the elements in non-decreasing order, built by insertion
RECURSIVE SortShards(_)
SortShards(v) ==
    IF v = <<>> THEN <<>>
    ELSE LET rest == SortShards(Tail(v))
             k == Cardinality({i \in 1..Len(rest) : rest[i] < Head(v)})
         IN  SubSeq(rest, 1, k) \o <<Head(v)>> \o SubSeq(rest, k + 1, Len(rest))

\* a plausible slip: dedup left out
DedupNone(v) == v

\* Vec::dedup: of every run of consecutive equal elements the first is kept
Dedup(v) ==
    LET kept == {i \in 1..Len(v) : i = 1 \/ v[i] # v[i - 1]}
        nth(n) == CHOOSE i \in kept : Cardinality({j \in kept : j <= i}) = n
    IN  [n \in 1..Cardinality(kept) |-> v[nth(n)]]

\* get_involved_shards
GetInvolvedShardsResult(count, objs) ==
    IF objs = <<>> THEN ShardOk(<<>>)
    ELSE IF count = 0 THEN ShardPanic
    ELSE ShardOk(Dedup(SortShards([i \in 1..Len(objs) |-> RouteObject(count, objs[i])])))

OLast(op, arg, r) == [op |-> op, arg |-> arg, res |-> r.res, ret |-> r.ret]

ShardInit ==
    /\ shard_count \in ShardCounts
    /\ objects \in ObjectLists
    /\ olast = OLast("new", <<>>, ShardOk(<<>>))

RouteObjectCall ==
    /\ \E i \in 1..Len(objects) :
          olast' = OLast("route_object", <<objects[i]>>,
                         RouteObjectResult(shard_count, objects[i]))
    /\ UNCHANGED <<shard_count, objects>>
    /\ UNCHANGED notShard

IsCrossShard ==
    /\ olast' = OLast("is_cross_shard", objects, IsCrossShardResult(shard_count, objects))
    /\ UNCHANGED <<shard_count, objects>>
    /\ UNCHANGED notShard

GetInvolvedShards ==
    /\ olast' = OLast("get_involved_shards", objects,
                      GetInvolvedShardsResult(shard_count, objects))
    /\ UNCHANGED <<shard_count, objects>>
    /\ UNCHANGED notShard

ShardNext == RouteObjectCall \/ IsCrossShard \/ GetInvolvedShards

\* C24: route_object maps an object id to big-endian-u16(first two bytes) mod
\* shard_count: the result is below shard_count, every object id with the same
\* first two bytes gets the same shard, and a repeated call gives it again.
C24_RouteObjectIsPrefixModCount ==
    (olast.op = "route_object" /\ olast.res = "Ok") =>
        LET id == olast.arg[1]
        IN  /\ olast.ret = (id[1] * 256 + id[2]) % shard_count
            /\ olast.ret \in 0..(shard_count - 1)
            /\ \A other \in ObjectIds :
                  (other[1] = id[1] /\ other[2] = id[2]) =>
                      RouteObjectResult(shard_count, other) = ShardOk(olast.ret)

\* C24 witness: with 4 shards the id starting 0x01 0x02 (258) went to shard 2
C24_Witness ==
    /\ olast.op = "route_object"
    /\ shard_count = 4
    /\ olast.arg = << <<1, 2, 7>> >>
    /\ olast.res = "Ok"
    /\ olast.ret = 2

\* the shard big-endian-u16(first two bytes) mod shard_count of an object id
ShardOf(id) == (id[1] * 256 + id[2]) % shard_count

\* C25: is_cross_shard is false for 0 or 1 objects and otherwise true iff some
\* object's shard differs from the first object's; so it is true for a pair
\* of objects whose shards differ.
C25_CrossShardIffDiffersFromFirst ==
    (olast.op = "is_cross_shard" /\ olast.res = "Ok") =>
        /\ Len(olast.arg) <= 1 => olast.ret = FALSE
        /\ Len(olast.arg) > 1 =>
              (olast.ret <=> \E i \in 2..Len(olast.arg) :
                                ShardOf(olast.arg[i]) # ShardOf(olast.arg[1]))
        /\ (Len(olast.arg) = 2 /\ ShardOf(olast.arg[1]) # ShardOf(olast.arg[2])) =>
              olast.ret = TRUE

\* C25 witness: three objects on 4 shards, in shards 2, 2 and 1: true although
\* only the last differs from the first
C25_Witness ==
    /\ olast.op = "is_cross_shard"
    /\ shard_count = 4
    /\ Len(olast.arg) = 3
    /\ ShardOf(olast.arg[1]) = 2
    /\ ShardOf(olast.arg[2]) = 2
    /\ ShardOf(olast.arg[3]) = 1
    /\ olast.ret = TRUE

\* C26: get_involved_shards returns, strictly increasing and so without
\* repetition, exactly the shards route_object gives the objects (nothing for
\* no objects), and more than one exactly when is_cross_shard is true.
C26_InvolvedShardsSortedSet ==
    (olast.op = "get_involved_shards" /\ olast.res = "Ok") =>
        /\ \A i \in 1..Len(olast.ret) : \A j \in 1..Len(olast.ret) :
              i < j => olast.ret[i] < olast.ret[j]
        /\ {olast.ret[i] : i \in 1..Len(olast.ret)}
              = {ShardOf(olast.arg[i]) : i \in 1..Len(olast.arg)}
        /\ olast.arg = <<>> => olast.ret = <<>>
        /\ IsCrossShardResult(shard_count, olast.arg).res = "Ok"
        /\ Len(olast.ret) > 1 <=> IsCrossShardResult(shard_count, olast.arg).ret

\* C26 witness: three objects on 3 shards given in the order of shards 2, 0, 2
\* come back as <<0, 2>>
C26_Witness ==
    /\ olast.op = "get_involved_shards"
    /\ shard_count = 3
    /\ Len(olast.arg) = 3
    /\ ShardOf(olast.arg[1]) = 2
    /\ ShardOf(olast.arg[2]) = 0
    /\ ShardOf(olast.arg[3]) = 2
    /\ olast.ret = <<0, 2>>

-----------------------------------------------------------------------------
(* UnifiedRouter *)

MaxTouched == 3

\* types.rs: ROOT_SUBNET = [0u8; 32], in the three components of the model
ROOT_SUBNET == <<0, 0, 0>>

\* A SubnetId is [u8; 32], kept as an ObjectId is.
SubnetIds == {ROOT_SUBNET, <<0, 1, 0>>, <<1, 3, 7>>}

\* the object ids of the routing contexts
RoutedObjects == {<<0, 0, 0>>, <<0, 1, 0>>, <<0, 2, 0>>, <<1, 3, 7>>}

TouchedLists == UNION {[1..n -> RoutedObjects] : n \in 0..MaxTouched}

\* struct RoutingContext; an Option is <<>> (None) or <<v>> (Some(v))
Contexts ==
    [subnet_id : {<<>>} \cup {<<sid>> : sid \in SubnetIds},
     primary_object : RoutedObjects,
     touched_objects : TouchedLists,
     sender : {<<>>, << <<1, 0, 7>> >>}]

\* The router as with_strategy builds it: the strategy variant, the shard
\* count of the hash-based subnet router and that of the object strategy.
Router(kind, subnet_count, object_count) ==
    [strategy |-> kind, subnet_router |-> subnet_count, object_strategy |-> object_count]

\* UnifiedRouter::new
RouterNew == Router("SubnetFirst", DEFAULT_SHARD_COUNT, DEFAULT_SHARD_COUNT)

\* UnifiedRouter::with_shard_count
RouterWithShardCount(n) == Router("SubnetFirst", n, n)

\* UnifiedRouter::with_strategy(SubnetFirst { HashBased { s }, object_shard_count })
RouterSubnetFirst(s, object_shard_count) == Router("SubnetFirst", s, object_shard_count)

\* UnifiedRouter::with_strategy(ObjectOnly { shard_count })
RouterObjectOnly(n) == Router("ObjectOnly", n, n)

\* UnifiedRouter::with_strategy(SubnetOnly { HashBased { s } }): the object
\* strategy is ObjectShardStrategy::new()
RouterSubnetOnly(s) == Router("SubnetOnly", s, DEFAULT_SHARD_COUNT)

Routers ==
    {RouterNew}
      \cup {RouterWithShardCount(n) : n \in {4}}
      \cup {RouterSubnetFirst(4, 3), RouterSubnetFirst(3, 4), RouterSubnetFirst(4, 0)}
      \cup {RouterObjectOnly(n) : n \in {3, 4, DEFAULT_SHARD_COUNT}}
      \cup {RouterSubnetOnly(s) : s \in {3, 4, DEFAULT_SHARD_COUNT}}

\* SubnetShardRouter::route with the hash-based strategy: as object-based
\* routing does, with the subnet id as the key
SubnetRoute(count, subnet_id) == FromBeBytes(subnet_id[1], subnet_id[2]) % count

RouteOk(shard, method, cross) ==
    [res |-> "Ok", primary_shard |-> shard, routing_method |-> method, is_cross_shard |-> cross]

\* route_object panicked inside route
RoutePanic ==
    [res |-> "Panic", primary_shard |-> <<>>, routing_method |-> <<>>, is_cross_shard |-> <<>>]

\* a plausible slip: the touched objects compared with each other
\* (ObjectShardStrategy::is_cross_shard), not with the primary shard
CheckCrossShardAmongTouched(r, c, primary_shard) ==
    IsCrossShardResult(r.object_strategy, c.touched_objects)

\* check_cross_shard_objects
CheckCrossShardObjects(r, c, primary_shard) ==
    IF c.touched_objects = <<>> THEN ShardOk(FALSE)
    ELSE IF r.object_strategy = 0 THEN ShardPanic
    ELSE ShardOk(\E i \in 1..Len(c.touched_objects) :
                    RouteObject(r.object_strategy, c.touched_objects[i]) # primary_shard)

\* the ShardRoutingResult built from a primary shard and the cross-shard check
WithCrossCheck(r, c, shard, method) ==
    LET cross == CheckCrossShardObjects(r, c, shard)
    IN  IF cross.res = "Panic" THEN RoutePanic ELSE RouteOk(shard, method, cross.ret)

\* route by the primary object
RouteByObject(r, c) ==
    IF r.object_strategy = 0 THEN RoutePanic
    ELSE WithCrossCheck(r, c, RouteObject(r.object_strategy, c.primary_object), "ByObject")

\* a plausible slip: the subnet branch taking the primary object's shard
RouteSubnetFirstObjectShard(r, c) ==
    IF c.subnet_id # <<>>
    THEN IF r.object_strategy = 0 THEN RoutePanic
         ELSE WithCrossCheck(r, c, RouteObject(r.object_strategy, c.primary_object), "BySubnet")
    ELSE RouteByObject(r, c)

\* route, SubnetFirst arm
RouteSubnetFirst(r, c) ==
    IF c.subnet_id # <<>>
    THEN WithCrossCheck(r, c, SubnetRoute(r.subnet_router, c.subnet_id[1]), "BySubnet")
    ELSE RouteByObject(r, c)

\* a plausible slip: ObjectOnly looking at the subnet id as SubnetFirst does
RouteObjectOnlyHonoursSubnet(r, c) == RouteSubnetFirst(r, c)

\* route, ObjectOnly arm
RouteObjectOnly(r, c) == RouteByObject(r, c)

\* a plausible slip: SubnetOnly running the cross-shard check of the other arms
RouteSubnetOnlyChecksObjects(r, c) ==
    LET subnet_id == IF c.subnet_id # <<>> THEN c.subnet_id[1] ELSE ROOT_SUBNET
    IN  WithCrossCheck(r, c, SubnetRoute(r.subnet_router, subnet_id), "BySubnet")

\* route, SubnetOnly arm
RouteSubnetOnly(r, c) ==
    LET subnet_id == IF c.subnet_id # <<>> THEN c.subnet_id[1] ELSE ROOT_SUBNET
    IN  RouteOk(SubnetRoute(r.subnet_router, subnet_id), "BySubnet", FALSE)

\* UnifiedRouter::route
RouteResult(r, c) ==
    CASE r.strategy = "SubnetFirst" -> RouteSubnetFirst(r, c)
      [] r.strategy = "ObjectOnly" -> RouteObjectOnly(r, c)
      [] r.strategy = "SubnetOnly" -> RouteSubnetOnly(r, c)

ULast(op, r) ==
    [op |-> op, res |-> r.res, primary_shard |-> r.primary_shard,
     routing_method |-> r.routing_method, is_cross_shard |-> r.is_cross_shard]

RouterInit ==
    /\ router \in Routers
    /\ ctx \in Contexts
    /\ ulast = ULast("new", RouteOk(<<>>, <<>>, <<>>))

Route ==
    /\ ulast' = ULast("route", RouteResult(router, ctx))
    /\ UNCHANGED <<router, ctx>>
    /\ UNCHANGED notRouter

\* the keys of the object_shards HashMap: the touched objects, each once
TouchedSet(c) == {c.touched_objects[i] : i \in 1..Len(c.touched_objects)}

\* object_shards.values().copied().collect(): the values in the map's
\* iteration order, which the sort that follows makes immaterial
RECURSIVE ValuesOf(_, _)
ValuesOf(map, keys) ==
    IF keys = {} THEN <<>>
    ELSE LET k == CHOOSE x \in keys : TRUE
         IN  <<map[k]>> \o ValuesOf(map, keys \ {k})

DetailedOk(primary, object_shards, all_shards) ==
    [res |-> "Ok", primary_shard |-> primary.primary_shard,
     routing_method |-> primary.routing_method, object_shards |-> object_shards,
     all_shards |-> all_shards, requires_coordination |-> Len(all_shards) > 1]

\* route or route_object panicked inside route_detailed
DetailedPanic ==
    [res |-> "Panic", primary_shard |-> <<>>, routing_method |-> <<>>, object_shards |-> <<>>,
     all_shards |-> <<>>, requires_coordination |-> <<>>]

\* a plausible slip: the primary shard not pushed onto all_shards
AllShardsOfObjects(values, primary_shard) == Dedup(SortShards(values))

\* route_detailed: all_shards
AllShards(values, primary_shard) == Dedup(SortShards(values \o <<primary_shard>>))

\* UnifiedRouter::route_detailed
RouteDetailedResult(r, c) ==
    LET primary_result == RouteResult(r, c)
    IN  IF primary_result.res = "Panic" THEN DetailedPanic
        ELSE IF c.touched_objects # <<>> /\ r.object_strategy = 0 THEN DetailedPanic
        ELSE LET object_shards == [o \in TouchedSet(c) |-> RouteObject(r.object_strategy, o)]
                 values == ValuesOf(object_shards, TouchedSet(c))
             IN  DetailedOk(primary_result, object_shards,
                            AllShards(values, primary_result.primary_shard))

DLast(op, r) ==
    [op |-> op, res |-> r.res, primary_shard |-> r.primary_shard,
     routing_method |-> r.routing_method, object_shards |-> r.object_shards,
     all_shards |-> r.all_shards, requires_coordination |-> r.requires_coordination]

RouteDetailed ==
    /\ ulast' = DLast("route_detailed", RouteDetailedResult(router, ctx))
    /\ UNCHANGED <<router, ctx>>
    /\ UNCHANGED notRouter

RouterNext == Route \/ RouteDetailed

\* route returned a result
Routed == ulast.op = "route" /\ ulast.res = "Ok"

\* the shard big-endian-u16(first two bytes) mod the object shard count
ObjectShardOf(id) == (id[1] * 256 + id[2]) % router.object_strategy

\* C27: under SubnetFirst route returns BySubnet and the subnet route of the
\* subnet id when one is present, ByObject and route_object(primary_object)
\* when none is; BySender is never returned.
C27_SubnetFirstBySubnetElseByObject ==
    (Routed /\ router.strategy = "SubnetFirst") =>
        /\ ctx.subnet_id # <<>> =>
              /\ ulast.routing_method = "BySubnet"
              /\ ulast.primary_shard = SubnetRoute(router.subnet_router, ctx.subnet_id[1])
        /\ ctx.subnet_id = <<>> =>
              /\ ulast.routing_method = "ByObject"
              /\ ulast.primary_shard = ObjectShardOf(ctx.primary_object)
        /\ ulast.routing_method # "BySender"

\* C27 witness: SubnetFirst, a subnet that routes to shard 1 and a primary
\* object that routes to shard 2: BySubnet and shard 1
C27_Witness ==
    /\ Routed
    /\ router = RouterSubnetFirst(4, 3)
    /\ ctx.subnet_id = << <<0, 1, 0>> >>
    /\ ctx.primary_object = <<0, 2, 0>>
    /\ ulast.routing_method = "BySubnet"
    /\ ulast.primary_shard = 1

\* C28: under ObjectOnly route returns ByObject and route_object(primary_object),
\* and a context that differs only in subnet_id gets the same result.
C28_ObjectOnlyIgnoresSubnet ==
    (Routed /\ router.strategy = "ObjectOnly") =>
        /\ ulast.routing_method = "ByObject"
        /\ ulast.primary_shard = ObjectShardOf(ctx.primary_object)
        /\ \A sid \in {<<>>} \cup {<<id>> : id \in SubnetIds} :
              ULast("route", RouteResult(router, [ctx EXCEPT !.subnet_id = sid])) = ulast

\* C28 witness: ObjectOnly with 4 shards, a subnet that would route to shard 1
\* and a primary object in shard 2: ByObject and shard 2
C28_Witness ==
    /\ Routed
    /\ router = RouterObjectOnly(4)
    /\ ctx.subnet_id = << <<0, 1, 0>> >>
    /\ ctx.primary_object = <<0, 2, 0>>
    /\ ulast.routing_method = "ByObject"
    /\ ulast.primary_shard = 2

\* C29: under SubnetOnly route returns BySubnet, gives a context without a
\* subnet id the result it gives the same context with the all-zero subnet id,
\* and returns is_cross_shard = false whatever objects are touched.
C29_SubnetOnlyRootAndNeverCross ==
    (ulast.op = "route" /\ router.strategy = "SubnetOnly") =>
        /\ ulast.res = "Ok"
        /\ ulast.routing_method = "BySubnet"
        /\ ctx.subnet_id # <<>> =>
              ulast.primary_shard = SubnetRoute(router.subnet_router, ctx.subnet_id[1])
        /\ ctx.subnet_id = <<>> =>
              /\ ulast.primary_shard = SubnetRoute(router.subnet_router, <<0, 0, 0>>)
              /\ ULast("route", RouteResult(router, [ctx EXCEPT !.subnet_id = << <<0, 0, 0>> >>]))
                    = ulast
        /\ ulast.is_cross_shard = FALSE

\* C29 witness: SubnetOnly, no subnet id, touched objects in shards other than
\* the ROOT subnet's shard 0: BySubnet, shard 0, not cross-shard
C29_Witness ==
    /\ Routed
    /\ router = RouterSubnetOnly(4)
    /\ ctx.subnet_id = <<>>
    /\ ctx.touched_objects = << <<0, 1, 0>>, <<0, 2, 0>> >>
    /\ ulast.routing_method = "BySubnet"
    /\ ulast.primary_shard = 0
    /\ ulast.is_cross_shard = FALSE

\* C30: under SubnetFirst and ObjectOnly is_cross_shard is true iff some touched
\* object's object-based shard differs from the returned primary shard, also
\* when the primary shard came from the subnet; it is false when no object is
\* touched.
C30_CrossShardAgainstPrimary ==
    (Routed /\ router.strategy \in {"SubnetFirst", "ObjectOnly"}) =>
        /\ ulast.is_cross_shard <=>
              \E i \in 1..Len(ctx.touched_objects) :
                  ObjectShardOf(ctx.touched_objects[i]) # ulast.primary_shard
        /\ ctx.touched_objects = <<>> => ulast.is_cross_shard = FALSE

\* C30 witness: SubnetFirst, the subnet routes to shard 1, the one touched
\* object to shard 2: cross-shard although a single object is touched
C30_Witness ==
    /\ Routed
    /\ router = RouterSubnetFirst(4, 3)
    /\ ctx.subnet_id = << <<0, 1, 0>> >>
    /\ ctx.touched_objects = << <<0, 2, 0>> >>
    /\ ulast.routing_method = "BySubnet"
    /\ ulast.primary_shard = 1
    /\ ulast.is_cross_shard = TRUE

\* route_detailed returned a result
RoutedDetailed == ulast.op = "route_detailed" /\ ulast.res = "Ok"

\* the object-based shards of the touched objects
TouchedShards == {ObjectShardOf(o) : o \in TouchedSet(ctx)}

\* the general part of C31: primary_shard and routing_method are those of
\* route, object_shards gives every touched object its route_object shard,
\* all_shards is the strictly increasing list of the object shards with the
\* primary shard, and requires_coordination tells whether it has two or more
DetailedIsRouteWithShards ==
    /\ RouteResult(router, ctx).res = "Ok"
    /\ ulast.primary_shard = RouteResult(router, ctx).primary_shard
    /\ ulast.routing_method = RouteResult(router, ctx).routing_method
    /\ DOMAIN ulast.object_shards = TouchedSet(ctx)
    /\ \A o \in TouchedSet(ctx) : ulast.object_shards[o] = ObjectShardOf(o)
    /\ \A i \in 1..Len(ulast.all_shards) : \A j \in 1..Len(ulast.all_shards) :
          i < j => ulast.all_shards[i] < ulast.all_shards[j]
    /\ {ulast.all_shards[i] : i \in 1..Len(ulast.all_shards)}
          = TouchedShards \cup {ulast.primary_shard}
    /\ ulast.requires_coordination = (Len(ulast.all_shards) > 1)

\* C31 as stated: route_detailed is route with the shards of the touched
\* objects, and touching objects in 3 distinct shards gives
\* requires_coordination with 3 shards listed.
C31_DetailedThreeShardsListed ==
    RoutedDetailed =>
        /\ DetailedIsRouteWithShards
        /\ Cardinality(TouchedShards) = 3 =>
              (ulast.requires_coordination = TRUE /\ Len(ulast.all_shards) = 3)

\* C31 amended: as above, and touching objects in 3 distinct shards gives
\* requires_coordination with 3 shards listed when the primary shard is one of
\* them and with 4 when it is not.
C31_DetailedThreeOrFourShardsListed ==
    RoutedDetailed =>
        /\ DetailedIsRouteWithShards
        /\ Cardinality(TouchedShards) = 3 =>
              /\ ulast.requires_coordination = TRUE
              /\ Len(ulast.all_shards)
                    = IF ulast.primary_shard \in TouchedShards THEN 3 ELSE 4

\* C31 witness: 4 shards, no subnet id, the primary object among three touched
\* objects of shards 2, 0 and 1: all_shards is <<0, 1, 2>>
C31_Witness ==
    /\ RoutedDetailed
    /\ router = RouterWithShardCount(4)
    /\ ctx.subnet_id = <<>>
    /\ ctx.primary_object = <<0, 2, 0>>
    /\ ctx.touched_objects = << <<0, 2, 0>>, <<0, 0, 0>>, <<0, 1, 0>> >>
    /\ ulast.primary_shard = 2
    /\ ulast.all_shards = <<0, 1, 2>>
    /\ ulast.requires_coordination = TRUE

\* C38: for every router configuration and every context
\* route_detailed(ctx).requires_coordination equals route(ctx).is_cross_shard.
C38_DetailedAgreesWithRoute ==
    RoutedDetailed =>
        /\ RouteResult(router, ctx).res = "Ok"
        /\ ulast.requires_coordination = RouteResult(router, ctx).is_cross_shard

-----------------------------------------------------------------------------
(* RoutingContext builders *)

\* RoutingContext::with_subnet
WithSubnet ==
    /\ \E subnet_id \in SubnetIds : \E primary_object \in RoutedObjects :
          ctx' = [subnet_id |-> <<subnet_id>>, primary_object |-> primary_object,
                  touched_objects |-> <<primary_object>>, sender |-> <<>>]
    /\ UNCHANGED <<router, ulast>>
    /\ UNCHANGED notRouter

\* RoutingContext::with_object
WithObject ==
    /\ \E primary_object \in RoutedObjects :
          ctx' = [subnet_id |-> <<>>, primary_object |-> primary_object,
                  touched_objects |-> <<primary_object>>, sender |-> <<>>]
    /\ UNCHANGED <<router, ulast>>
    /\ UNCHANGED notRouter

\* RoutingContext::with_touched_objects, on a context already made
WithTouchedObjects ==
    /\ ctx # <<>>
    /\ \E objs \in TouchedLists : ctx' = [ctx EXCEPT !.touched_objects = objs]
    /\ UNCHANGED <<router, ulast>>
    /\ UNCHANGED notRouter

\* RoutingContext::with_sender, on a context already made
WithSender ==
    /\ ctx # <<>>
    /\ \E sender \in {<<1, 0, 7>>} : ctx' = [ctx EXCEPT !.sender = <<sender>>]
    /\ UNCHANGED <<router, ulast>>
    /\ UNCHANGED notRouter

BuilderNext == WithSubnet \/ WithObject \/ WithTouchedObjects \/ WithSender

\* C32: every context made by a chain of the builders has its primary object
\* among its touched objects.
C32_PrimaryAmongTouched ==
    ctx # <<>> => ctx.primary_object \in TouchedSet(ctx)

-----------------------------------------------------------------------------
(* One get_available call interleaved with other threads' registry calls *)

MaxPoints == 4

\* no thread is inside a call
NoThreads == [t \in {} |-> 0]

\* parking_lot::RwLock held by nobody
Unlocked == [writer |-> <<>>, readers |-> {}, waiting |-> <<>>]

\* the SolverInfo values the other threads register
InterleavedInputs ==
    [id : SolverIds, address : {"127.0.0.1"}, status : {"Online"},
     resource_domains : {<<>>}, pending_load : {0},
     max_capacity : {1}, weight : {100}, last_heartbeat : {0}]

\* get_available run at once at clock reading t on the table: the list it
\* returns, with t
AtomicGetAvailable(table, t, timeout) ==
    [ret |-> {s \in Values(CheckTimeouts(table, t, timeout)) : IsAvailable(s)}, at |-> t]

\* the position of the thread that calls get_available
QueryAt(pc) == [query |-> [pc |-> pc]]

\* the call is in flight
InFlight == threads.query.pc \in {"called", "swept"}

\* the history covers the present point
Current == AtomicGetAvailable(solvers, now, heartbeat_timeout) \in atomic

\* another thread's call, or the passage of time, can come now: the call is in
\* flight, the history covers the present point and has room for one more
Concurrently == InFlight /\ Current /\ Cardinality(atomic) < MaxPoints

\* history: the present point is added before anything else happens
RecordPoint ==
    /\ InFlight
    /\ ~Current
    /\ atomic' = atomic \cup {AtomicGetAvailable(solvers, now, heartbeat_timeout)}
    /\ UNCHANGED <<threads, lock>>
    /\ UNCHANGED <<qvars, rvars, hvars, svars, cvars, ovars, uvars, vvars>>

\* a thread calls get_available
QueryCall ==
    /\ threads.query.pc = "idle"
    /\ threads' = QueryAt("called")
    /\ atomic' = {AtomicGetAvailable(solvers, now, heartbeat_timeout)}
    /\ UNCHANGED lock
    /\ UNCHANGED <<qvars, rvars, hvars, svars, cvars, ovars, uvars, vvars>>

\* get_available: self.check_timeouts(), one critical section under the write
\* lock, which is released when check_timeouts returns
QuerySweep ==
    /\ threads.query.pc = "called"
    /\ Current
    /\ solvers' = CheckTimeouts(solvers, now, heartbeat_timeout)
    /\ threads' = QueryAt("swept")
    /\ UNCHANGED <<heartbeat_timeout, now, rlast, lock, atomic>>
    /\ UNCHANGED <<qvars, hvars, svars, cvars, ovars, uvars, vvars>>

\* get_available: the filtered read, a second critical section under the read
\* lock, and the return
QueryRead ==
    /\ threads.query.pc = "swept"
    /\ Current
    /\ rlast' = RLast("get_available", "", <<>>, now, {s \in Values(solvers) : IsAvailable(s)})
    /\ threads' = QueryAt("returned")
    /\ UNCHANGED <<solvers, heartbeat_timeout, now, lock, atomic>>
    /\ UNCHANGED <<qvars, hvars, svars, cvars, ovars, uvars, vvars>>

\* the other threads' calls and the passage of time, each a critical section
\* of its own, at any point of the query
OtherTick == Concurrently /\ Tick

OtherRegister == Concurrently /\ RegisterOf(InterleavedInputs)

OtherHeartbeat == Concurrently /\ Heartbeat

OtherUpdateStatus == Concurrently /\ UpdateStatus

OtherUpdateLoad == Concurrently /\ UpdateLoad

InterleavedNext ==
    \/ RecordPoint
    \/ QueryCall
    \/ QuerySweep
    \/ QueryRead
    \/ OtherTick
    \/ OtherRegister
    \/ OtherHeartbeat
    \/ OtherUpdateStatus
    \/ OtherUpdateLoad

\* the registry when the call is made: any of the solvers registered at
\* clock reading 0
InterleavedInit ==
    /\ \E ids \in SUBSET SolverIds :
          solvers = [id \in ids |-> CHOOSE s \in InterleavedInputs : s.id = id]
    /\ heartbeat_timeout \in 1..MaxTimeout
    /\ now = 0
    /\ rlast = RLast("new", "", <<>>, 0, {})
    /\ held = {}
    /\ threads = QueryAt("idle")
    /\ lock = Unlocked
    /\ atomic = {}

\* C33: the list a get_available call returns, whatever register, heartbeat,
\* update_status and update_load calls ran during it, is the list get_available
\* would return run at once at some point between the call and the return, and
\* so holds no solver whose heartbeat had timed out at that point.
C33_QueryIsAtomicAtSomePoint ==
    (threads.query.pc = "returned" /\ rlast.op = "get_available") =>
        \E point \in atomic :
            /\ rlast.ret = point.ret
            /\ \A s \in rlast.ret : ~TimedOut(point.at, s.last_heartbeat, heartbeat_timeout)

-----------------------------------------------------------------------------
(* Threads calling select on one ConsistentHashStrategy *)

SelectThreads == {"t1", "t2"}

\* the solver lists the threads pass: ["a", "b"], ["b", "a"], ["a", "ba"],
\* ["ab", "a"] and ["a", "b", "ba"], and the single ["a"]
ThreadIdLists ==
    { << <<"a">> >>,
      << <<"a">>, <<"b">> >>,
      << <<"b">>, <<"a">> >>,
      << <<"a">>, <<"b", "a">> >>,
      << <<"a", "b">>, <<"a">> >>,
      << <<"a">>, <<"b">>, <<"b", "a">> >> }

ThreadLists == {list \in HashedLists : IdsOf(list) \in ThreadIdLists}

\* a thread outside select
ThreadIdle == [pc |-> "idle", available |-> <<>>, key |-> <<>>, res |-> "", ret |-> <<>>]

\* a thread inside select, before the cache is consulted or after a miss
ThreadIn(pc, available, key) ==
    [pc |-> pc, available |-> available, key |-> key, res |-> "", ret |-> <<>>]

\* a thread whose select returned
ThreadReturned(available, key, res, ret) ==
    [pc |-> "returned", available |-> available, key |-> key, res |-> res, ret |-> ret]

\* select from find_in_ring on: the lookup in the ring the call holds
LookupIn(ring, available, key) ==
    LET found == FindInRing(ring, RoutingKeyHash[key])
    IN  IF found = <<>> THEN ThreadReturned(available, key, "NoSolverAvailable", <<>>)
        ELSE IF found[1] >= Len(available) THEN ThreadReturned(available, key, "Panic", <<>>)
        ELSE ThreadReturned(available, key, "Ok", <<available[found[1] + 1]>>)

\* select up to the call of get_or_build_ring: the empty list and the single
\* solver return without the cache
SelectCall(t) ==
    /\ threads[t].pc \in {"idle", "returned"}
    /\ \E available \in ThreadLists \cup {<<>>}, key \in RoutingKeys :
          threads' = [threads EXCEPT ![t] =
              IF available = <<>>
              THEN ThreadReturned(available, key, "NoSolverAvailable", <<>>)
              ELSE IF IsSingle(available)
              THEN ThreadReturned(available, key, "Ok", <<available[1]>>)
              ELSE ThreadIn("check", available, key)]
    /\ UNCHANGED <<lock, atomic>>
    /\ UNCHANGED <<qvars, rvars, hvars, svars, cvars, ovars, uvars, vvars>>

\* get_or_build_ring: the section under the read lock; on a hit the cached
\* ring is cloned and the call goes on to the lookup and returns
SelectCheck(t) ==
    /\ threads[t].pc = "check"
    /\ threads' = [threads EXCEPT ![t] =
          IF ring_cache # <<>> /\ ring_cache[1].hash = SolversHash(threads[t].available)
          THEN LookupIn(ring_cache[1].ring, threads[t].available, threads[t].key)
          ELSE ThreadIn("build", threads[t].available, threads[t].key)]
    /\ UNCHANGED <<lock, atomic>>
    /\ UNCHANGED <<qvars, rvars, hvars, svars, cvars, ovars, uvars, vvars>>

\* get_or_build_ring after a miss: the ring is built in a local, the pair
\* (current_hash, ring) is stored under the write lock, and the call goes on to
\* the lookup in its own ring and returns
SelectStore(t) ==
    /\ threads[t].pc = "build"
    /\ LET available == threads[t].available
           ring == BuildRing(available, virtual_nodes)
       IN  /\ ring_cache' = <<[hash |-> SolversHash(available), ring |-> ring]>>
           /\ ring_built_for' = IdsOf(available)
           /\ ring_built_from' = available
           /\ threads' = [threads EXCEPT ![t] = LookupIn(ring, available, threads[t].key)]
    /\ UNCHANGED <<strategy, virtual_nodes, load_threshold, lb_available, slast>>
    /\ UNCHANGED <<lock, atomic>>
    /\ UNCHANGED <<qvars, rvars, hvars, cvars, ovars, uvars, vvars>>

ThreadsSelectNext ==
    \E t \in SelectThreads : SelectCall(t) \/ SelectCheck(t) \/ SelectStore(t)

ThreadsSelectInit ==
    /\ strategy = "ConsistentHash"
    /\ virtual_nodes \in VirtualNodeChoices
    /\ ring_cache = <<>>
    /\ ring_built_for = <<>>
    /\ ring_built_from = <<>>
    /\ load_threshold = Frac(9, 10)
    /\ lb_available = <<>>
    /\ slast = SLast("new", <<>>, <<>>, "Ok", <<>>, <<>>)
    /\ threads = [t \in SelectThreads |-> ThreadIdle]
    /\ lock = Unlocked
    /\ atomic = {}

\* C34: in every interleaving of select calls of several threads on one
\* strategy, also with different solver lists, each call returns what the same
\* call returns alone on a fresh strategy, and the cache holds nothing or a
\* (hash, ring) pair built together from one solver list.
C34_ConcurrentSelectAsAlone ==
    /\ \A t \in SelectThreads :
          threads[t].pc = "returned" =>
              LET alone == CHSelectResult(<<>>, threads[t].available, threads[t].key,
                                          virtual_nodes)
              IN  threads[t].res = alone.res /\ threads[t].ret = alone.ret
    /\ \/ ring_cache = <<>>
       \/ \E list \in ThreadLists :
             ring_cache = <<[hash |-> SolversHash(list),
                             ring |-> BuildRing(list, virtual_nodes)]>>

-----------------------------------------------------------------------------
(* Threads calling one SolverRegistry: the lock protocol *)

LockThreads == {"t1", "t2", "t3"}

\* the operations whose body is one section under solvers.write()
WriteOps == {"register", "unregister", "heartbeat", "update_status", "update_load"}

\* the operations whose body is one section under solvers.read()
ReadOps == {"get", "get_all", "count"}

\* the operations that call check_timeouts (a section under solvers.write())
\* and then read under solvers.read()
QueryOps == {"get_available", "get_available_for_resource", "available_count"}

\* the lock sections an operation is made of
KindOf(op) == IF op \in WriteOps THEN "write" ELSE IF op \in ReadOps THEN "read" ELSE "query"

\* a thread's position: outside any call, parked for or inside the write
\* section, parked for or inside the read section, in an operation of a kind
CallAt(pc, kind) == [pc |-> pc, kind |-> kind]

\* the solver the threads register
LockedInput == CHOOSE s \in InterleavedInputs : s.id = "solver-1"

\* RwLock::write / RwLock::read called: the thread parks in arrival order
Park(lk, t) == [lk EXCEPT !.waiting = Append(@, t)]

\* a plausible slip: the guard of check_timeouts kept over the read that follows
GuardKept(lk) == lk

\* the write guard goes out of scope at the end of the operation's block
GuardDropped(lk) == [lk EXCEPT !.writer = <<>>]

\* what the write section of an operation leaves in the table
WriteBody(op, table, t, timeout) ==
    CASE op = "register" ->
            {[id \in (DOMAIN table) \cup {LockedInput.id} |->
                 IF id = LockedInput.id THEN Stamp(LockedInput, t) ELSE table[id]]}
      [] op = "unregister" ->
            {[id \in (DOMAIN table) \ {"solver-1"} |-> table[id]]}
      [] op = "heartbeat" ->
            {IF "solver-1" \in DOMAIN table
             THEN [table EXCEPT !["solver-1"] =
                      [@ EXCEPT !.last_heartbeat = t, !.status = Promote(@)]]
             ELSE table}
      [] op = "update_status" ->
            {IF "solver-1" \in DOMAIN table
             THEN [table EXCEPT !["solver-1"].status = status]
             ELSE table : status \in {"Online", "Busy"}}
      [] op = "update_load" ->
            {IF "solver-1" \in DOMAIN table
             THEN [table EXCEPT !["solver-1"].pending_load = 1]
             ELSE table}
      [] OTHER -> {CheckTimeouts(table, t, timeout)}

\* a thread enters an operation and asks for the lock its first section needs
LockCall(t) ==
    /\ threads[t].pc = "idle"
    /\ \E op \in WriteOps \cup ReadOps \cup QueryOps :
          threads' = [threads EXCEPT ![t] =
              CallAt(IF op \in ReadOps THEN "wait_read" ELSE "wait_write", KindOf(op))]
    /\ lock' = Park(lock, t)
    /\ UNCHANGED atomic
    /\ UNCHANGED <<qvars, rvars, hvars, svars, cvars, ovars, uvars, vvars>>

\* the lock grants the write guard to the thread parked first, when no guard
\* is out
AcquireWrite(t) ==
    /\ threads[t].pc = "wait_write"
    /\ lock.waiting # <<>> /\ Head(lock.waiting) = t
    /\ lock.writer = <<>> /\ lock.readers = {}
    /\ lock' = [lock EXCEPT !.writer = <<t>>, !.waiting = Tail(@)]
    /\ threads' = [threads EXCEPT ![t].pc = "in_write"]
    /\ UNCHANGED atomic
    /\ UNCHANGED <<qvars, rvars, hvars, svars, cvars, ovars, uvars, vvars>>

\* the section under the write guard, to the point where the guard is dropped:
\* a write operation returns, a query goes on to ask for the read guard
WriteSection(t) ==
    /\ threads[t].pc = "in_write"
    /\ \E op \in IF threads[t].kind = "query" THEN QueryOps ELSE WriteOps :
          solvers' \in WriteBody(op, solvers, now, heartbeat_timeout)
    /\ IF threads[t].kind = "query"
       THEN /\ lock' = Park(GuardDropped(lock), t)
            /\ threads' = [threads EXCEPT ![t].pc = "wait_read"]
       ELSE /\ lock' = GuardDropped(lock)
            /\ threads' = [threads EXCEPT ![t] = CallAt("idle", "")]
    /\ UNCHANGED <<heartbeat_timeout, now, rlast, atomic>>
    /\ UNCHANGED <<qvars, hvars, svars, cvars, ovars, uvars, vvars>>

\* the lock grants a read guard to the thread parked first, when no write
\* guard is out
AcquireRead(t) ==
    /\ threads[t].pc = "wait_read"
    /\ lock.waiting # <<>> /\ Head(lock.waiting) = t
    /\ lock.writer = <<>>
    /\ lock' = [lock EXCEPT !.readers = @ \cup {t}, !.waiting = Tail(@)]
    /\ threads' = [threads EXCEPT ![t].pc = "in_read"]
    /\ UNCHANGED atomic
    /\ UNCHANGED <<qvars, rvars, hvars, svars, cvars, ovars, uvars, vvars>>

\* the section under a read guard, and the return
ReadSection(t) ==
    /\ threads[t].pc = "in_read"
    /\ lock' = [lock EXCEPT !.readers = @ \ {t}]
    /\ threads' = [threads EXCEPT ![t] = CallAt("idle", "")]
    /\ UNCHANGED atomic
    /\ UNCHANGED <<qvars, rvars, hvars, svars, cvars, ovars, uvars, vvars>>

LocksNext ==
    \E t \in LockThreads :
        LockCall(t) \/ AcquireWrite(t) \/ WriteSection(t) \/ AcquireRead(t) \/ ReadSection(t)

\* a registry with a timeout of 1, empty or with solver-1 registered at clock
\* reading 0, at a clock reading of 0 or MaxNow
LocksInit ==
    /\ solvers \in {EmptyTable, [id \in {"solver-1"} |-> LockedInput]}
    /\ heartbeat_timeout = 1
    /\ now \in {0, MaxNow}
    /\ rlast = RLast("new", "", <<>>, 0, {})
    /\ held = {}
    /\ threads = [t \in LockThreads |-> CallAt("idle", "")]
    /\ lock = Unlocked
    /\ atomic = {}

\* every section under a guard runs to its end, and the lock grants a guard
\* that can be granted
LocksFairness ==
    \A t \in LockThreads :
        /\ WF_vars(AcquireWrite(t))
        /\ WF_vars(WriteSection(t))
        /\ WF_vars(AcquireRead(t))
        /\ WF_vars(ReadSection(t))

\* C35: no thread asks for the write lock while it holds a read guard, nor for
\* the read lock while it holds the write guard (the sweep's guard is dropped
\* before the read is asked for), and under fair scheduling every call made
\* by any thread returns.
C35_EveryCallReturns ==
    /\ [](\A t \in LockThreads :
             threads[t].pc \in {"wait_write", "wait_read"} =>
                 t \notin lock.readers /\ lock.writer # <<t>>)
    /\ \A t \in LockThreads : (threads[t].pc # "idle") ~> (threads[t].pc = "idle")

\* C35 witness: a query that finished its sweep waits for the read guard while
\* another thread holds the write guard and a third one is parked behind it
C35_Witness ==
    /\ threads["t1"].pc = "wait_read" /\ threads["t1"].kind = "query"
    /\ lock.writer = <<"t2">>
    /\ lock.waiting = <<"t1", "t3">>

-----------------------------------------------------------------------------
(* SolverRegistry: what update_status and update_load leave alone *)

\* C39: update_status(id, s) changes only the status and update_load(id, n)
\* only the pending_load of the entry for id; that entry's last heartbeat and
\* other fields, every other entry and the set of registered ids stay as they
\* were, and for an id that is not registered nothing changes or is created.
C39_UpdatesTouchOneField ==
    [][ rlast'.op \in {"update_status", "update_load"} =>
            /\ DOMAIN solvers' = DOMAIN solvers
            /\ heartbeat_timeout' = heartbeat_timeout
            /\ \A id \in DOMAIN solvers :
                  IF id # rlast'.id THEN solvers'[id] = solvers[id]
                  ELSE IF rlast'.op = "update_status"
                  THEN \E status \in SolverStatus :
                          solvers'[id] = [solvers[id] EXCEPT !.status = status]
                  ELSE \E n \in LoadChoices :
                          solvers'[id] = [solvers[id] EXCEPT !.pending_load = n]
      ]_vars

\* C39 witness: update_status(solver-1, Busy) at a clock reading later than
\* solver-1's heartbeat, with solver-2 registered as well
C39_Witness ==
    /\ rlast.op = "update_status" /\ rlast.id = "solver-1"
    /\ DOMAIN solvers = {"solver-1", "solver-2"}
    /\ solvers["solver-1"].status = "Busy"
    /\ solvers["solver-1"].last_heartbeat < rlast.at
    /\ solvers["solver-1"].pending_load = 1

-----------------------------------------------------------------------------
(* SolverRegistry after update_status(id, Offline | Busy): heartbeats, *)
(* availability queries and time only *)

\* registries in which every registered solver, registered Online at clock
\* reading 0 with load below capacity, was then set to Offline or Busy by
\* update_status
DemotedTables ==
    UNION { [ids -> {[s EXCEPT !.status = status] :
                        s \in InterleavedInputs, status \in {"Offline", "Busy"}}] :
            ids \in SUBSET SolverIds \ {{}} }

\* the state after the last of those update_status calls
DemotedInit ==
    /\ solvers \in {table \in DemotedTables : \A id \in DOMAIN table : table[id].id = id}
    /\ heartbeat_timeout \in 1..MaxTimeout
    /\ now \in 0..MaxNow
    /\ \E id \in DOMAIN solvers : rlast = RLast("update_status", id, <<>>, now, {})
    /\ held = {}

DemotedNext ==
    Tick \/ Heartbeat \/ GetAvailable \/ GetAvailableForResource \/ AvailableCount

-----------------------------------------------------------------------------
(* Validator *)

\* the clock skew verify_event allows, in milliseconds
CLOCK_SKEW_MS == 60000

EventIds == {"e1", "e2"}

\* parent_ids : Vec<EventId>
ParentLists == { <<>>, <<"e1">>, <<"e2">>, <<"e1", "e2">>, <<"e2", "e1">> }

\* Events as the channel delivers them. genesis is what event.is_genesis()
\* returns, ahead is event.timestamp less the wall clock at the time of the
\* check, execution_result is <<>> (None) or <<[success]>>.
AllEvents ==
    [id : EventIds, genesis : BOOLEAN, parent_ids : ParentLists,
     execution_result : {<<>>, <<[success |-> TRUE]>>, <<[success |-> FALSE]>>},
     creator : {"", "solver-1"}, ahead : {CLOCK_SKEW_MS, CLOCK_SKEW_MS + 1},
     logical_time : {0, 1}]

\* how many of the fields other than id, genesis and parent_ids differ from
\* those of an event a solver sends after a successful execution
Deviations(event) ==
    (IF event.execution_result # <<[success |-> TRUE]>> THEN 1 ELSE 0)
    + (IF event.creator = "" THEN 1 ELSE 0)
    + (IF event.ahead > CLOCK_SKEW_MS THEN 1 ELSE 0)
    + (IF event.logical_time = 0 THEN 1 ELSE 0)

\* the events sent: with at most one such field off
Events == {event \in AllEvents : Deviations(event) <= 1}

NoEvents == [k \in {} |-> 0]

\* Event::is_genesis, as seen by verify_event
IsGenesis(event) == event.genesis

\* a plausible slip: any parent verified in place of all
FirstMissingParentIfNone(event, store) ==
    IF \A i \in 1..Len(event.parent_ids) : event.parent_ids[i] \notin DOMAIN store
    THEN IF event.parent_ids = <<>> THEN <<>> ELSE <<event.parent_ids[1]>>
    ELSE <<>>

\* the loop over parent_ids of verify_event: <<>> when every parent is a key
\* of verified_events, else <<the first one that is not>>
FirstMissingParent(event, store) ==
    IF \E i \in 1..Len(event.parent_ids) : event.parent_ids[i] \notin DOMAIN store
    THEN LET i == CHOOSE i \in 1..Len(event.parent_ids) :
                     /\ event.parent_ids[i] \notin DOMAIN store
                     /\ \A j \in 1..(i - 1) : event.parent_ids[j] \in DOMAIN store
         IN  <<event.parent_ids[i]>>
    ELSE <<>>

\* Validator::verify_event : the first failing check, or Ok
VerifyEvent(event, store) ==
    IF event.execution_result = <<>> THEN [res |-> "NoExecutionResult", id |-> <<>>]
    ELSE IF ~event.execution_result[1].success THEN [res |-> "ExecutionFailed", id |-> <<>>]
    ELSE IF event.creator = "" THEN [res |-> "InvalidCreator", id |-> <<>>]
    ELSE IF event.ahead > CLOCK_SKEW_MS THEN [res |-> "FutureTimestamp", id |-> <<>>]
    ELSE IF ~IsGenesis(event) /\ FirstMissingParent(event, store) # <<>>
    THEN [res |-> "MissingParent", id |-> FirstMissingParent(event, store)]
    ELSE IF event.logical_time = 0 /\ ~IsGenesis(event) THEN [res |-> "InvalidVLC", id |-> <<>>]
    ELSE [res |-> "Ok", id |-> <<>>]

\* event is <<>> or <<the event received>>
VLast(event, result) == [event |-> event, result |-> result]

\* Validator::new
ValidatorInit ==
    /\ verified_events = NoEvents
    /\ vlast = VLast(<<>>, [res |-> "Ok", id |-> <<>>])

\* one iteration of the loop of Validator::run: an event is received and
\* verified, and inserted under its id when verify_event returned Ok
RunIteration ==
    \E event \in Events :
        LET result == VerifyEvent(event, verified_events) IN
        /\ verified_events' =
              IF result.res = "Ok"
              THEN [id \in (DOMAIN verified_events) \cup {event.id} |->
                       IF id = event.id THEN event ELSE verified_events[id]]
              ELSE verified_events
        /\ vlast' = VLast(<<event>>, result)
        /\ UNCHANGED <<qvars, rvars, hvars, svars, cvars, ovars, uvars, tvars>>

ValidatorNext == RunIteration

\* the parents of the event that are not keys of the store
MissingParents(event, store) ==
    {event.parent_ids[i] : i \in 1..Len(event.parent_ids)} \ DOMAIN store

\* the stored events are exactly the events whose verification returned Ok,
\* and a non-genesis event is stored only when all its parents are stored
StoredAfterOkParentsFirst ==
    /\ [](\A id \in DOMAIN verified_events :
             /\ verified_events[id].id = id
             /\ ~IsGenesis(verified_events[id]) =>
                   MissingParents(verified_events[id], verified_events) = {})
    /\ [][ (vlast' # vlast \/ verified_events' # verified_events) =>
              LET event == vlast'.event[1] IN
              IF vlast'.result.res = "Ok"
              THEN /\ ~IsGenesis(event) => MissingParents(event, verified_events) = {}
                   /\ DOMAIN verified_events' = DOMAIN verified_events \cup {event.id}
                   /\ verified_events'[event.id] = event
                   /\ \A id \in DOMAIN verified_events \ {event.id} :
                         verified_events'[id] = verified_events[id]
              ELSE verified_events' = verified_events
         ]_vars

-----------------------------------------------------------------------------
(* Specifications *)

\* a component that is not exercised stays as its default constructor leaves it
QueueIdle ==
    /\ max_size = 0
    /\ queue = <<>>
    /\ index = EmptyIndex
    /\ qlast = QLast("new", "", "Ok", <<>>, FALSE)
    /\ qsnap = NoSnap
    /\ fifo = <<>>

RegistryIdle ==
    /\ solvers = EmptyTable
    /\ heartbeat_timeout = 1
    /\ now = 0
    /\ rlast = RLast("new", "", <<>>, 0, {})
    /\ held = {}

SelectIdle ==
    /\ strategy = "ConsistentHash"
    /\ virtual_nodes = 150
    /\ ring_cache = <<>>
    /\ ring_built_for = <<>>
    /\ ring_built_from = <<>>
    /\ load_threshold = Frac(9, 10)
    /\ lb_available = <<>>
    /\ slast = SLast("new", <<>>, <<>>, "Ok", <<>>, <<>>)

CheckIdle == CheckInit

\* no thread is inside a call
ThreadsIdle ==
    /\ threads = NoThreads
    /\ lock = Unlocked
    /\ atomic = {}

ShardIdle ==
    /\ shard_count = DEFAULT_SHARD_COUNT
    /\ objects = <<>>
    /\ olast = OLast("new", <<>>, ShardOk(<<>>))

RouterIdle ==
    /\ router = RouterNew
    /\ ctx = <<>>
    /\ ulast = ULast("new", RouteOk(<<>>, <<>>, <<>>))

ValidatorIdle == ValidatorInit

\* PendingQueue
InitQueue == QueueInit /\ RegistryIdle /\ SelectIdle /\ CheckIdle /\ ShardIdle /\ RouterIdle /\ ThreadsIdle /\ ValidatorIdle

SpecQueue == InitQueue /\ [][QueueNext]_vars

\* SolverRegistry
InitRegistry == RegistryInit /\ QueueIdle /\ SelectIdle /\ CheckIdle /\ ShardIdle /\ RouterIdle /\ ThreadsIdle /\ ValidatorIdle

SpecRegistry == InitRegistry /\ [][RegistryNext]_vars

\* ConsistentHashStrategy and LoadBalancedStrategy
InitSelect == SelectInit /\ QueueIdle /\ RegistryIdle /\ CheckIdle /\ ShardIdle /\ RouterIdle /\ ThreadsIdle /\ ValidatorIdle

SpecSelect == InitSelect /\ [][SelectNext]_vars

\* ConsistentHashStrategy given the same solvers with changing fields
InitSelectFields == InitSelect /\ strategy = "ConsistentHash"

SpecSelectFields == InitSelectFields /\ [][CHSelectWithFields]_vars

\* SolverRegistry with resource domains
SpecResource == InitRegistry /\ [][ResourceNext]_vars

\* SolverRegistry and a caller keeping returned values
SpecSnapshot == InitRegistry /\ [][SnapshotNext]_vars

\* ObjectShardStrategy
InitShard == ShardInit /\ QueueIdle /\ RegistryIdle /\ SelectIdle /\ CheckIdle /\ RouterIdle /\ ThreadsIdle /\ ValidatorIdle

SpecShard == InitShard /\ [][ShardNext]_vars

\* UnifiedRouter
InitRouter == RouterInit /\ QueueIdle /\ RegistryIdle /\ SelectIdle /\ CheckIdle /\ ShardIdle /\ ThreadsIdle /\ ValidatorIdle

SpecRouter == InitRouter /\ [][RouterNext]_vars

\* RoutingContext builders: no context has been made yet
InitBuilder == RouterIdle /\ QueueIdle /\ RegistryIdle /\ SelectIdle /\ CheckIdle /\ ShardIdle /\ ThreadsIdle /\ ValidatorIdle

SpecBuilder == InitBuilder /\ [][BuilderNext]_vars

\* one get_available call among other threads' registry calls
InitInterleaved ==
    InterleavedInit /\ QueueIdle /\ SelectIdle /\ CheckIdle /\ ShardIdle /\ RouterIdle /\ ValidatorIdle

SpecInterleaved == InitInterleaved /\ [][InterleavedNext]_vars

\* threads calling select on one ConsistentHashStrategy
InitThreadsSelect ==
    ThreadsSelectInit /\ QueueIdle /\ RegistryIdle /\ CheckIdle /\ ShardIdle /\ RouterIdle /\ ValidatorIdle

SpecThreadsSelect == InitThreadsSelect /\ [][ThreadsSelectNext]_vars

\* threads calling one SolverRegistry
InitLocks ==
    LocksInit /\ QueueIdle /\ SelectIdle /\ CheckIdle /\ ShardIdle /\ RouterIdle /\ ValidatorIdle

SpecLocks == InitLocks /\ [][LocksNext]_vars /\ LocksFairness

\* SolverRegistry after update_status(id, Offline | Busy)
InitDemoted ==
    DemotedInit /\ QueueIdle /\ SelectIdle /\ CheckIdle /\ ShardIdle /\ RouterIdle /\ ThreadsIdle /\ ValidatorIdle

SpecDemoted == InitDemoted /\ [][DemotedNext]_vars

\* Validator
InitValidator ==
    ValidatorInit /\ QueueIdle /\ RegistryIdle /\ SelectIdle /\ CheckIdle /\ ShardIdle
        /\ RouterIdle /\ ThreadsIdle

SpecValidator == InitValidator /\ [][ValidatorNext]_vars

\* QuickChecker
InitCheck == CheckInit /\ QueueIdle /\ RegistryIdle /\ SelectIdle /\ ShardIdle /\ RouterIdle /\ ThreadsIdle /\ ValidatorIdle

SpecCheck == InitCheck /\ [][CheckNext]_vars

====
